---- MODULE Spec2Model ----
(***************************************************************************)
(* A model of speednfo: the PageSpeed analyzer (pagespeed_analyzer.py),    *)
(* its metric classifier, its recommendation extraction and the aggregate  *)
(* analysis, the priority arithmetic the specification describes, the      *)
(* report composer (pdf_generator.py) and the chat front-end (bot.py).     *)
(*                                                                         *)
(* Conventions                                                             *)
(*   - a Python dict is a TLA+ record/function; "key in d" is              *)
(*     key \in DOMAIN d;                                                   *)
(*   - a Lighthouse score (a real in [0,1]) is kept in hundredths, so      *)
(*     0.9 is 90, 0.5 is 50 and 1 is 100;                                  *)
(*   - an optional JSON field is a tagged value: the key is missing        *)
(*     ("absent"), present with null ("null"), or present with a number;   *)
(*   - a raised Python exception is a value [raised |-> <class>].          *)
(***************************************************************************)
EXTENDS Integers, Sequences, FiniteSets, TLC

VARIABLES
  op,             \* the call or handler that ran last ("none": idle)
  request,        \* analyzer: the input of the running call
  result,         \* analyzer: what the call returned
  attempted,      \* analyzer: the sub-checks an aggregate call ran
  attempts,       \* network: the answers the requests of the running call got
  prioInput,      \* priority sort: the recommendations handed in
  ranked,         \* priority sort: the sorted recommendations
  earlier,        \* an earlier analyze call an observer remembers
  between,        \* calls on other inputs since that call
  reportInput,    \* report: the arguments of generate_report
  elements,       \* report: the elements handed to doc.build
  scheduled_jobs, \* bot: self.scheduled_jobs
  scheduler,      \* bot: the jobs of self.scheduler
  conversation,   \* bot: state of the ConversationHandler per (chat, user)
  user_data,      \* bot: context.user_data per user
  issued,         \* bot: number of job ids uuid4 has handed out
  update,         \* bot: the update the last handler ran on
  analyzerCalls,  \* bot: the analyzer calls of the last handler
  analyzerResults, \* bot: what these calls returned, in the same order
  tasks,          \* bot: the cancel callbacks in process at the same time
  replies         \* bot: the messages the last handler sent

prioVars == <<prioInput, ranked>>
repeatVars == <<earlier, between>>
reportVars == <<reportInput, elements>>
botVars == <<scheduled_jobs, scheduler, conversation, user_data, issued,
             update, analyzerCalls, analyzerResults, tasks, replies>>

vars == <<op, request, result, attempted, attempts, prioInput, ranked, earlier, between,
          reportInput, elements, scheduled_jobs, scheduler, conversation,
          user_data, issued, update, analyzerCalls, analyzerResults, tasks,
          replies>>

-----------------------------------------------------------------------------
(* Bounds of the model *)

\* longest audit batch drawn from SampleAudits
MaxAudits == 3
\* longest run of poor-score diagnostics appended to a batch
MaxFill == 11
\* longest list of (impact, difficulty) pairs handed to the priority sort
MaxRecs == 3
\* most calls on other inputs counted between two calls on the same input
MaxBetween == 2

-----------------------------------------------------------------------------
(* JSON values *)

Absent == [tag |-> "absent", v |-> 0]
Null == [tag |-> "null", v |-> 0]
Num(n) == [tag |-> "num", v |-> n]

\* the title key is missing
NoTitle == "<no title>"

\* scores in hundredths that sit on and next to the thresholds the code tests
ScoreValues == {0, 49, 50, 51, 89, 90, 100}

OptionalScores == {Absent, Null} \cup {Num(n) : n \in ScoreValues}

\* audit["details"]: key missing, a mapping of type opportunity, a mapping of
\* another type, or a value that is no mapping (null, a list)
DetailsValues == {"absent", "opportunity", "table", "not_mapping"}

\* audit["scoreDisplayMode"]
DisplayModes == {"absent", "numeric", "informative"}

\* audit["displayValue"]
DisplayValues == {"absent", "4.2 s"}

\* KEY_METRICS: metric id -> display name (the display names are Ukrainian in
\* the source; their English meaning stands for them here)
KEY_METRICS ==
  [id \in {"first-contentful-paint", "speed-index", "largest-contentful-paint",
           "interactive", "total-blocking-time", "cumulative-layout-shift"} |->
     CASE id = "first-contentful-paint" -> "First content"
       [] id = "speed-index" -> "Speed index"
       [] id = "largest-contentful-paint" -> "Largest content"
       [] id = "interactive" -> "Time to interactive"
       [] id = "total-blocking-time" -> "Total blocking time"
       [] id = "cumulative-layout-shift" -> "Cumulative layout shift"]

\* the audit ids the extraction always ranks critical when they are opportunities
CriticalIds == {"render-blocking-resources", "largest-contentful-paint"}

\* other[:10]
OtherLimit == 10

\* audit ids of the batches: two listed critical, two key metrics, one plain
AuditIds == {"render-blocking-resources", "largest-contentful-paint",
             "first-contentful-paint", "unused-css-rules"}

\* ids of the diagnostics that fill a long batch
FillerIds == <<"bootup-time", "dom-size", "mainthread-work-breakdown",
               "uses-long-cache-ttl", "total-byte-weight", "font-display",
               "third-party-summary", "uses-passive-event-listeners",
               "no-document-write", "unsized-images", "duplicated-javascript",
               "legacy-javascript", "uses-http2", "redirects">>

\* one entry of lighthouseResult.audits; shape "null" is an entry that is no
\* mapping at all. savings is details.overallSavingsMs, which the API gives
\* with an opportunity and which no line of the analyzer reads.
Audit(id, title, score, details, mode, dv) ==
  [id |-> id, shape |-> "mapping", title |-> title, score |-> score,
   details |-> details, mode |-> mode, displayValue |-> dv, savings |-> Absent]

NullAudit(id) ==
  [id |-> id, shape |-> "null", title |-> NoTitle, score |-> Absent,
   details |-> "absent", mode |-> "absent", displayValue |-> "absent",
   savings |-> Absent]

\* an opportunity entry with its declared savings in milliseconds
Opportunity(id, score, ms) ==
  [Audit(id, id, Num(score), "opportunity", "numeric", "absent")
     EXCEPT !.savings = Num(ms)]

\* every single audit entry over the field values above; an entry's title text
\* is unique to it (its id text stands for it)
AuditEntries ==
  {Audit(id, t, s, d, m, dv) :
     id \in AuditIds, t \in {NoTitle}, s \in OptionalScores,
     d \in DetailsValues, m \in DisplayModes, dv \in DisplayValues}
  \cup
  UNION {{Audit(id, id, s, d, m, dv) :
     s \in OptionalScores, d \in DetailsValues, m \in DisplayModes,
     dv \in DisplayValues} : id \in AuditIds}
  \cup {NullAudit(id) : id \in AuditIds}

-----------------------------------------------------------------------------
(* Metric classifier *)

\* score >= 0.9, in hundredths
GoodMin == 90
\* score >= 0.5 and score <= 0.5, in hundredths
AverageMin == 50

Returned(v) == [raised |-> "none", val |-> v]
Raised(exc) == [raised |-> exc, val |-> "<no value>"]

\* a faulty variant: the good threshold is tested with > instead of >=
get_metric_rating_strict(metric) ==
  IF metric.shape # "mapping" THEN Raised("TypeError")
  ELSE IF metric.score.tag # "absent"
    THEN IF metric.score.tag = "null" THEN Raised("TypeError")
         ELSE IF metric.score.v > GoodMin THEN Returned("good")
         ELSE IF metric.score.v >= AverageMin THEN Returned("average")
         ELSE Returned("poor")
    ELSE IF metric.mode # "absent" THEN Returned(metric.mode)
         ELSE Returned("not_available")

\* _get_metric_rating: "score" in metric tests the key, so a null score
\* reaches `score >= 0.9` and raises TypeError
get_metric_rating(metric) ==
  IF metric.shape # "mapping" THEN Raised("TypeError")
  ELSE IF metric.score.tag # "absent"
    THEN IF metric.score.tag = "null" THEN Raised("TypeError")
         ELSE IF metric.score.v >= GoodMin THEN Returned("good")
         ELSE IF metric.score.v >= AverageMin THEN Returned("average")
         ELSE Returned("poor")
    ELSE IF metric.mode # "absent" THEN Returned(metric.mode)
         ELSE Returned("not_available")

-----------------------------------------------------------------------------
(* Recommendation extraction *)

\* audit.get("score", 1): the default only replaces a missing key
ScoreOrOne(audit) == IF audit.score.tag = "absent" THEN Num(100) ELSE audit.score

\* `x <= 0.5` on the value audit.get("score", 1) returned
LeHalf(x) ==
  IF x.tag = "null" THEN Raised("TypeError")
  ELSE Returned(IF x.v <= AverageMin THEN "yes" ELSE "no")

\* a faulty variant: the class follows the declared savings (1000 ms and more
\* critical, 250 ms and more important), not the score and the id
AuditOutcome_by_savings(audit) ==
  IF audit.shape # "mapping" THEN "raise"
  ELSE IF audit.title = NoTitle
          \/ (audit.score.tag = "num" /\ audit.score.v = 100) THEN "skip"
  ELSE IF audit.details # "absent" /\ audit.details = "not_mapping" THEN "raise"
  ELSE IF audit.details = "opportunity" /\ audit.savings.tag = "num"
    THEN IF audit.savings.v >= 1000 THEN "critical"
         ELSE IF audit.savings.v >= 250 THEN "important"
         ELSE "other"
  ELSE IF audit.details = "opportunity"
    THEN IF (ScoreOrOne(audit).tag = "num" /\ ScoreOrOne(audit).v = 0)
            \/ audit.id \in CriticalIds THEN "critical"
         ELSE IF LeHalf(ScoreOrOne(audit)).raised # "none" THEN "raise"
         ELSE IF LeHalf(ScoreOrOne(audit)).val = "yes" THEN "important"
         ELSE "other"
  ELSE IF LeHalf(ScoreOrOne(audit)).raised # "none" THEN "raise"
  ELSE IF LeHalf(ScoreOrOne(audit)).val = "yes" THEN "other"
  ELSE "drop"

\* a faulty variant: the last branch keeps every entry whose score is not perfect,
\* whatever its score
AuditOutcome_keep_imperfect(audit) ==
  IF audit.shape # "mapping" THEN "raise"
  ELSE IF audit.title = NoTitle
          \/ (audit.score.tag = "num" /\ audit.score.v = 100) THEN "skip"
  ELSE IF audit.details # "absent" /\ audit.details = "not_mapping" THEN "raise"
  ELSE IF audit.details = "opportunity"
    THEN IF (ScoreOrOne(audit).tag = "num" /\ ScoreOrOne(audit).v = 0)
            \/ audit.id \in CriticalIds THEN "critical"
         ELSE IF LeHalf(ScoreOrOne(audit)).raised # "none" THEN "raise"
         ELSE IF LeHalf(ScoreOrOne(audit)).val = "yes" THEN "important"
         ELSE "other"
  ELSE IF LeHalf(ScoreOrOne(audit)).raised # "none" THEN "raise"
  ELSE "other"

\* one iteration of the loop over audits.items(): what happens to the entry.
\*   "skip"     the continue of the first test
\*   "critical", "important", "other"   the list its title is appended to
\*   "drop"     no branch appends it
\*   "raise"    the iteration raises, which leaves the loop
AuditOutcome(audit) ==
  IF audit.shape # "mapping" THEN "raise"
  ELSE IF audit.title = NoTitle
          \/ (audit.score.tag = "num" /\ audit.score.v = 100) THEN "skip"
  ELSE IF audit.details # "absent" /\ audit.details = "not_mapping" THEN "raise"
  ELSE IF audit.details = "opportunity"
    THEN IF (ScoreOrOne(audit).tag = "num" /\ ScoreOrOne(audit).v = 0)
            \/ audit.id \in CriticalIds THEN "critical"
         ELSE IF LeHalf(ScoreOrOne(audit)).raised # "none" THEN "raise"
         ELSE IF LeHalf(ScoreOrOne(audit)).val = "yes" THEN "important"
         ELSE "other"
  ELSE IF LeHalf(ScoreOrOne(audit)).raised # "none" THEN "raise"
  ELSE IF LeHalf(ScoreOrOne(audit)).val = "yes" THEN "other"
  ELSE "drop"

NoLists == [raised |-> FALSE, critical |-> <<>>, important |-> <<>>, other |-> <<>>]

\* the for loop: the three lists after the entries from position i on, or
\* raised as soon as one iteration raises
RECURSIVE ClassifyFrom(_, _, _)
ClassifyFrom(audits, i, acc) ==
  IF i > Len(audits) THEN acc
  ELSE LET a == audits[i]
           o == AuditOutcome(a)
       IN IF o = "raise" THEN [acc EXCEPT !.raised = TRUE]
          ELSE ClassifyFrom(audits, i + 1,
                 CASE o = "critical" -> [acc EXCEPT !.critical = Append(@, a.title)]
                   [] o = "important" -> [acc EXCEPT !.important = Append(@, a.title)]
                   [] o = "other" -> [acc EXCEPT !.other = Append(@, a.title)]
                   [] OTHER -> acc)

Classify(audits) == ClassifyFrom(audits, 1, NoLists)

\* seq[:n]
Take(seq, n) == SubSeq(seq, 1, IF Len(seq) < n THEN Len(seq) ELSE n)

\* a faulty variant: the critical recommendations come last
Recommendations_critical_last(lists) ==
  lists.important \o Take(lists.other, OtherLimit) \o lists.critical

\* a faulty variant: important before critical
Recommendations_important_first(lists) ==
  lists.important \o lists.critical \o Take(lists.other, OtherLimit)

\* critical_recommendations + important_recommendations + other_recommendations[:10]
Recommendations(lists) ==
  lists.critical \o lists.important \o Take(lists.other, OtherLimit)

\* a faulty variant: the summary counts the truncated list of other recommendations
Priorities_truncated(lists) ==
  [critical |-> Len(lists.critical), important |-> Len(lists.important),
   other |-> Len(Take(lists.other, OtherLimit))]

\* results["recommendation_priorities"]
Priorities(lists) ==
  [critical |-> Len(lists.critical), important |-> Len(lists.important),
   other |-> Len(lists.other)]

\* a faulty variant: the lists are kept on the instance and outlive the call,
\* so a call starts from the recommendations of the call before
extract_recommendations_keeping_lists(audits, results) ==
  LET lists == Classify(audits)
      left == IF "response" \in DOMAIN earlier
                 /\ "recommendations" \in DOMAIN earlier.result
              THEN earlier.result.recommendations ELSE <<>>
  IN IF lists.raised THEN results
     ELSE [score |-> results.score, metrics |-> results.metrics,
           recommendations |-> left \o Recommendations(lists),
           recommendation_priorities |-> Priorities(lists)]

\* _extract_recommendations(data, results): the two assignments to results
\* are reached only when no iteration raised; the except clause logs and leaves
\* results as analyze built it (recommendations [], no recommendation_priorities)
extract_recommendations(audits, results) ==
  LET lists == Classify(audits)
  IN IF lists.raised THEN results
     ELSE [score |-> results.score, metrics |-> results.metrics,
           recommendations |-> Recommendations(lists),
           recommendation_priorities |-> Priorities(lists)]

-----------------------------------------------------------------------------
(* The PageSpeed API response and analyze *)

\* lighthouseResult.categories.performance.score values, in hundredths
PerfScores == {0, 29, 45, 92, 100}

\* int(score * 100) on the double nearest to n/100: the product falls just
\* short of n for 0.29, 0.57 and 0.58, and int() truncates
ScoreTimes100(n) == IF n \in {29, 57, 58} THEN n - 1 ELSE n

\* what the GET of the API produced. kind:
\*   "timeout", "connection_error"      session.get raises
\*   "http_4xx", "http_5xx"             raise_for_status raises HTTPError
\*   "not_json_request_exc", "not_json_value_error"
\*        response.json() raises; the class is requests' JSONDecodeError (a
\*        RequestException) or a plain ValueError, by the library's version
\*   "json"                             a parsed body
\* error: the body's "error" key: "absent", "message" (a mapping with a
\*   message), "no_message" (a mapping without), "not_mapping"
\* lighthouse: the body's "lighthouseResult": "absent", or the first thing
\*   missing in it, or "complete"
Response(kind, error, lighthouse, score, audits) ==
  [kind |-> kind, error |-> error, lighthouse |-> lighthouse,
   score |-> score, audits |-> audits]

FailedResponse(kind) == Response(kind, "absent", "absent", 0, <<>>)

TransportKinds == {"timeout", "connection_error", "http_4xx", "http_5xx",
                   "not_json_request_exc", "not_json_value_error"}

ErrorValues == {"absent", "message", "no_message", "not_mapping"}

LighthouseValues == {"absent", "no_categories", "no_performance", "no_score",
                     "null_score", "no_audits", "complete"}

\* the key metrics found in audits, in the order of KEY_METRICS
MetricAudits(audits) ==
  {i \in 1..Len(audits) : audits[i].id \in DOMAIN KEY_METRICS}

\* the loop over KEY_METRICS.items(): the metrics mapping, or the exception
\* of the first entry that raises (metric.get on an entry that is no mapping,
\* or _get_metric_rating)
Metrics(audits) ==
  LET idx == MetricAudits(audits)
  IN IF \E i \in idx : audits[i].shape # "mapping" THEN Raised("AttributeError")
     ELSE IF \E i \in idx : get_metric_rating(audits[i]).raised # "none"
       THEN Raised("TypeError")
     ELSE Returned(
       [name \in {KEY_METRICS[audits[i].id] : i \in idx} |->
          LET i == CHOOSE j \in idx : KEY_METRICS[audits[j].id] = name
          IN [value |-> IF audits[i].displayValue = "absent" THEN "N/A"
                        ELSE audits[i].displayValue,
              rating |-> get_metric_rating(audits[i]).val]])

\* the body of the try block of analyze
analyze_try(resp) ==
  IF resp.kind \in {"timeout", "connection_error", "http_4xx", "http_5xx",
                    "not_json_request_exc"} THEN Raised("RequestException")
  ELSE IF resp.kind = "not_json_value_error" THEN Raised("ValueError")
  ELSE IF resp.error = "not_mapping" THEN Raised("AttributeError")
  ELSE IF resp.error = "message" THEN Returned([error |-> "api message"])
  ELSE IF resp.error = "no_message" THEN Returned([error |-> "unknown API error"])
  ELSE IF resp.lighthouse = "absent"
    THEN Returned([error |-> "no Lighthouse results in the API response"])
  ELSE IF resp.lighthouse \in {"no_categories", "no_performance", "no_score"}
    THEN Raised("KeyError")
  ELSE IF resp.lighthouse = "null_score" THEN Raised("TypeError")
  ELSE IF resp.lighthouse = "no_audits" THEN Raised("KeyError")
  ELSE LET m == Metrics(resp.audits)
       IN IF m.raised # "none" THEN Raised(m.raised)
          ELSE Returned(extract_recommendations(resp.audits,
                 [score |-> ScoreTimes100(resp.score), metrics |-> m.val,
                  recommendations |-> <<>>]))

\* a faulty variant: the last except clause is missing, so what is neither a
\* RequestException nor a KeyError leaves analyze
analyze_no_catch_all(resp) ==
  LET r == analyze_try(resp)
  IN IF r.raised = "none" THEN r.val
     ELSE IF r.raised = "RequestException" THEN [error |-> "request error"]
     ELSE IF r.raised = "KeyError" THEN [error |-> "response structure error"]
     ELSE [uncaught |-> r.raised]

\* analyze(url, strategy): the try block and its three except clauses
analyze(resp) ==
  LET r == analyze_try(resp)
  IN IF r.raised = "none" THEN r.val
     ELSE IF r.raised = "RequestException" THEN [error |-> "request error"]
     ELSE IF r.raised = "KeyError" THEN [error |-> "response structure error"]
     ELSE [error |-> "unknown error"]

-----------------------------------------------------------------------------
(* The three page inspections: each fetches the url itself *)

\* what session.get(url) and raise_for_status produced
FetchKinds == {"ok", "timeout", "http_error"}

\* the parsed page as analyze_seo reads it
SeoPage(fetch, tp, tl, dp, dl, h1, it, iwa) ==
  [fetch |-> fetch, title_present |-> tp, title_length |-> tl,
   description_present |-> dp, description_length |-> dl,
   h1 |-> h1, images_total |-> it, images_without_alt |-> iwa]

\* a conditional list.append
AppendIf(seq, cond, x) == IF cond THEN Append(seq, x) ELSE seq

\* a faulty variant: several H1 headings pass, only a missing one is reported
analyze_seo_missing_h1_only(page) ==
  IF page.fetch # "ok" THEN [error |-> "SEO analysis error"]
  ELSE LET title == page.title_present /\ page.title_length > 0
           description == page.description_present /\ page.description_length > 0
           r1 == AppendIf(<<>>,
                   ~title \/ page.title_length < 10 \/ page.title_length > 60,
                   "optimize the title")
           r2 == AppendIf(r1,
                   ~description \/ page.description_length < 50
                     \/ page.description_length > 160,
                   "add a meta description")
           r3 == AppendIf(r2, page.h1 = 0, "exactly one H1")
           r4 == AppendIf(r3, page.images_without_alt > 0, "add alt to images")
       IN [title |-> [present |-> page.title_present, length |-> page.title_length,
                      status |-> IF title /\ 10 <= page.title_length
                                       /\ page.title_length <= 60
                                 THEN "good" ELSE "poor"],
           meta_description |->
                     [present |-> page.description_present,
                      length |-> page.description_length,
                      status |-> IF description /\ 50 <= page.description_length
                                       /\ page.description_length <= 160
                                 THEN "good" ELSE "poor"],
           h1 |-> page.h1,
           images_total |-> page.images_total,
           images_without_alt |-> page.images_without_alt,
           recommendations |-> r4]

\* analyze_seo(url); a falsy title is a missing or an empty one
analyze_seo(page) ==
  IF page.fetch # "ok" THEN [error |-> "SEO analysis error"]
  ELSE LET title == page.title_present /\ page.title_length > 0
           description == page.description_present /\ page.description_length > 0
           r1 == AppendIf(<<>>,
                   ~title \/ page.title_length < 10 \/ page.title_length > 60,
                   "optimize the title")
           r2 == AppendIf(r1,
                   ~description \/ page.description_length < 50
                     \/ page.description_length > 160,
                   "add a meta description")
           r3 == AppendIf(r2, page.h1 # 1, "exactly one H1")
           r4 == AppendIf(r3, page.images_without_alt > 0, "add alt to images")
       IN [title |-> [present |-> page.title_present, length |-> page.title_length,
                      status |-> IF title /\ 10 <= page.title_length
                                       /\ page.title_length <= 60
                                 THEN "good" ELSE "poor"],
           meta_description |->
                     [present |-> page.description_present,
                      length |-> page.description_length,
                      status |-> IF description /\ 50 <= page.description_length
                                       /\ page.description_length <= 160
                                 THEN "good" ELSE "poor"],
           h1 |-> page.h1,
           images_total |-> page.images_total,
           images_without_alt |-> page.images_without_alt,
           recommendations |-> r4]

\* the parsed page as analyze_accessibility reads it
AccPage(fetch, aria, it, iwa, labels, inputs, contrast) ==
  [fetch |-> fetch, aria |-> aria, images_total |-> it, images_with_alt |-> iwa,
   form_labels |-> labels, form_inputs |-> inputs, contrast_issues |-> contrast]

\* analyze_accessibility(url); images_with_alt_ratio < 1 iff some image of a
\* page that has images lacks alt
analyze_accessibility(page) ==
  IF page.fetch # "ok" THEN [error |-> "accessibility analysis error"]
  ELSE LET r1 == AppendIf(<<>>,
                   page.images_total > 0 /\ page.images_with_alt < page.images_total,
                   "add alt to all images")
           r2 == AppendIf(r1, page.contrast_issues > 0, "check text contrast")
           r3 == AppendIf(r2, page.form_labels < page.form_inputs, "label the form fields")
           r4 == AppendIf(r3, page.aria = 0, "consider ARIA attributes")
       IN [aria_attributes_count |-> page.aria,
           potential_contrast_issues |-> page.contrast_issues,
           form_labels |-> page.form_labels, form_inputs |-> page.form_inputs,
           recommendations |-> r4]

\* the seven headers of security_headers, in the order of the dict
SecurityHeaders == <<"Strict-Transport-Security", "Content-Security-Policy",
                     "X-Content-Type-Options", "X-Frame-Options",
                     "X-XSS-Protection", "Referrer-Policy", "Permissions-Policy">>

\* the response as analyze_security reads it: the scheme of the url, of the
\* final url, the names of the response headers, the number of cookies
SecPage(fetch, scheme, final, headers, cookies) ==
  [fetch |-> fetch, scheme |-> scheme, final_scheme |-> final,
   headers |-> headers, cookie_count |-> cookies]

\* security_headers[h] is not None
HeaderPresent(page, h) ==
  h \in page.headers \/ (h = "Permissions-Policy" /\ "Feature-Policy" \in page.headers)

RECURSIVE MissingHeaders(_, _)
MissingHeaders(page, i) ==
  IF i > Len(SecurityHeaders) THEN <<>>
  ELSE AppendIf(<<>>, ~HeaderPresent(page, SecurityHeaders[i]), SecurityHeaders[i])
       \o MissingHeaders(page, i + 1)

\* _analyze_cookies(response.cookies): the loop iterates the jar, which yields
\* Cookie objects, and looks each up with cookies[cookie]; the jar's lookup is
\* by name, finds none and raises KeyError
analyze_cookies(page) ==
  IF page.cookie_count = 0
  THEN Returned([count |-> 0, secure |-> TRUE, httponly |-> TRUE, samesite |-> TRUE])
  ELSE Raised("KeyError")

\* analyze_security(url)
analyze_security(page) ==
  IF page.fetch # "ok" THEN [error |-> "security analysis error"]
  ELSE IF analyze_cookies(page).raised # "none" THEN [error |-> "security analysis error"]
  ELSE LET uses_https == page.scheme = "https"
                          \/ (page.final_scheme = "https" /\ page.scheme = "http")
           cookies == analyze_cookies(page).val
       IN [uses_https |-> uses_https,
           missing_headers |-> MissingHeaders(page, 1),
           secure_cookies |-> cookies.secure,
           httponly_cookies |-> cookies.httponly,
           samesite_cookies |-> cookies.samesite,
           recommendations |->
             AppendIf(<<>>, ~uses_https, "move to HTTPS") \o MissingHeaders(page, 1)]

-----------------------------------------------------------------------------
(* analyze_with_all_metrics *)

\* the five sub-checks in the order analyze_with_all_metrics calls them
SubChecks == <<"mobile", "desktop", "seo", "accessibility", "security">>

\* what sub-check k returns on the inputs of one aggregate call
SubCheck(inputs, k) ==
  CASE k = "mobile" -> analyze(inputs.mobile)
    [] k = "desktop" -> analyze(inputs.desktop)
    [] k = "seo" -> analyze_seo(inputs.seo)
    [] k = "accessibility" -> analyze_accessibility(inputs.accessibility)
    [] k = "security" -> analyze_security(inputs.security)

Failed(r) == "error" \in DOMAIN r

\* the slot of a page inspection: the dict it starts with is replaced only by
\* a result without "error"
Slot(r) == IF Failed(r) THEN [x \in {} |-> x] ELSE r

\* a faulty variant: a failed sub-check ends the aggregate call with an error
analyze_with_all_metrics_stop_at_failure(inputs) ==
  IF \E i \in 1..Len(SubChecks) : Failed(SubCheck(inputs, SubChecks[i]))
  THEN LET f == CHOOSE i \in 1..Len(SubChecks) :
                  /\ Failed(SubCheck(inputs, SubChecks[i]))
                  /\ \A j \in 1..(i - 1) : ~Failed(SubCheck(inputs, SubChecks[j]))
       IN [calls |-> SubSeq(SubChecks, 1, f),
           value |-> [error |-> "aggregate analysis error"]]
  ELSE [calls |-> SubChecks,
        value |-> [pagespeed |-> [mobile |-> SubCheck(inputs, "mobile"),
                                  desktop |-> SubCheck(inputs, "desktop")],
                   seo |-> SubCheck(inputs, "seo"),
                   accessibility |-> SubCheck(inputs, "accessibility"),
                   security |-> SubCheck(inputs, "security")]]

\* analyze_with_all_metrics(url): calls, the sub-checks it called, in order;
\* value, what it returns. No sub-check raises (each catches Exception), so
\* the except clause of the aggregate is never entered.
analyze_with_all_metrics(inputs) ==
  [calls |-> SubChecks,
   value |->
     [pagespeed |->
        [d \in {c \in {"mobile", "desktop"} : ~Failed(SubCheck(inputs, c))} |->
           SubCheck(inputs, d)],
      seo |-> Slot(SubCheck(inputs, "seo")),
      accessibility |-> Slot(SubCheck(inputs, "accessibility")),
      security |-> Slot(SubCheck(inputs, "security"))]]

-----------------------------------------------------------------------------
(* The priority score of the specification's Prioritizer (section 4.2, steps  *)
(* 5 and 6). pagespeed_analyzer.py computes no such score.                    *)

ImpactLevels == {"high", "medium", "low"}
DifficultyLevels == {"easy", "medium", "hard"}

\* impact_weight in {3,2,1} for {high,medium,low}
ImpactWeight(impact) ==
  CASE impact = "high" -> 3 [] impact = "medium" -> 2 [] impact = "low" -> 1

\* difficulty_weight in {1,2,3} for {easy,medium,hard}
DifficultyWeight(difficulty) ==
  CASE difficulty = "easy" -> 1 [] difficulty = "medium" -> 2 [] difficulty = "hard" -> 3

\* a faulty variant: the impact weight dominates and the difficulty only breaks ties
Priority_impact_first(rec) ==
  300 * ImpactWeight(rec.impact) - DifficultyWeight(rec.difficulty)

\* a faulty variant: the tie-break term is missing
Priority_no_tie_break(rec) ==
  (300 * ImpactWeight(rec.impact)) \div DifficultyWeight(rec.difficulty)

\* impact_weight / difficulty_weight + impact_weight * 0.01, times 300: the
\* division is exact for the three difficulty weights, so the order of these
\* integers is the order of the real scores
Priority(rec) ==
  (300 * ImpactWeight(rec.impact)) \div DifficultyWeight(rec.difficulty)
  + 3 * ImpactWeight(rec.impact)

\* rec goes behind every element whose priority is at least its own
RECURSIVE InsertByPriority(_, _)
InsertByPriority(sorted, rec) ==
  IF sorted = <<>> THEN <<rec>>
  ELSE IF Priority(Head(sorted)) >= Priority(rec)
    THEN <<Head(sorted)>> \o InsertByPriority(Tail(sorted), rec)
    ELSE <<rec>> \o sorted

\* sort by priority score descending, stable for equal scores
RECURSIVE SortByPriority(_)
SortByPriority(recs) ==
  IF recs = <<>> THEN <<>>
  ELSE InsertByPriority(SortByPriority(SubSeq(recs, 1, Len(recs) - 1)),
                        recs[Len(recs)])

-----------------------------------------------------------------------------
(* The inputs the calls are drawn from *)

\* audit entries the longer batches are made of, one or two of each outcome
SampleAudits ==
  { Audit("render-blocking-resources", "render-blocking-resources", Num(51),
          "opportunity", "numeric", "absent"),
    Audit("first-contentful-paint", "first-contentful-paint", Num(0),
          "opportunity", "numeric", "4.2 s"),
    Audit("unused-css-rules", "unused-css-rules", Num(50),
          "opportunity", "numeric", "absent"),
    Audit("uses-optimized-images", "uses-optimized-images", Num(49),
          "opportunity", "numeric", "absent"),
    Audit("largest-contentful-paint", "largest-contentful-paint", Num(49),
          "absent", "numeric", "4.2 s"),
    Audit("uses-text-compression", "uses-text-compression", Num(89),
          "opportunity", "numeric", "absent"),
    Audit("server-response-time", "server-response-time", Null,
          "table", "informative", "absent"),
    Audit("is-on-https", "is-on-https", Num(89),
          "absent", "binary", "absent") }

DistinctIds(batch) ==
  \A i, j \in 1..Len(batch) : i # j => batch[i].id # batch[j].id

\* audits is a dict: the ids of a batch are distinct
SampleBatches ==
  {b \in UNION {[1..n -> SampleAudits] : n \in 0..MaxAudits} : DistinctIds(b)}

\* k diagnostics with a poor score and no details: each is an "other"
\* opportunities with declared savings: one id of the critical list and two
\* plain ones, a score of each class, savings of each bucket of the
\* specification (under 250, 250 to 999, 1000 and more)
SavingsValues == {100, 500, 1200, 1500}

SavingsAudits ==
  {Opportunity(id, sc, ms) :
     id \in {"render-blocking-resources", "uses-optimized-images",
             "unused-javascript"},
     sc \in {0, 49, 89}, ms \in SavingsValues}

\* one or two of them, with distinct ids
SavingsBatches ==
  {<<a>> : a \in SavingsAudits}
  \cup {p \in {<<a, b>> : a \in SavingsAudits, b \in SavingsAudits} :
          p[1].id # p[2].id}

Filler(k) ==
  [i \in 1..k |-> Audit(FillerIds[i], FillerIds[i], Num(49), "absent", "numeric",
                        "absent")]

AuditBatches ==
  {<<e>> : e \in AuditEntries}
  \cup {b \o Filler(k) : b \in SampleBatches, k \in 0..MaxFill}
  \cup SavingsBatches

Responses ==
  {FailedResponse(k) : k \in TransportKinds}
  \cup {Response("json", e, l, 92, <<>>) :
          e \in ErrorValues \ {"absent"}, l \in LighthouseValues}
  \cup {Response("json", "absent", l, 92, <<>>) :
          l \in LighthouseValues \ {"complete"}}
  \cup {Response("json", "absent", "complete", sc, <<>>) : sc \in PerfScores}
  \cup {Response("json", "absent", "complete", 92, b) : b \in AuditBatches}

\* the API responses of an aggregate call: failures of each kind, a complete
\* one, and a complete one whose key metric has a null score
AggregateResponses ==
  { FailedResponse("timeout"),
    Response("json", "message", "absent", 92, <<>>),
    Response("json", "absent", "no_score", 92, <<>>),
    Response("json", "absent", "complete", 92,
             <<Audit("first-contentful-paint", "first-contentful-paint", Num(0),
                     "opportunity", "numeric", "4.2 s")>>),
    Response("json", "absent", "complete", 92,
             <<Audit("first-contentful-paint", "first-contentful-paint", Null,
                     "absent", "informative", "absent")>>) }

SeoPages ==
  { SeoPage("timeout", FALSE, 0, FALSE, 0, 0, 0, 0),
    SeoPage("ok", TRUE, 30, TRUE, 100, 1, 2, 0),
    SeoPage("ok", FALSE, 0, TRUE, 200, 2, 2, 1) }

AccPages ==
  { AccPage("http_error", 0, 0, 0, 0, 0, 0),
    AccPage("ok", 3, 2, 2, 1, 1, 0),
    AccPage("ok", 0, 2, 1, 0, 1, 2) }

SecPages ==
  { SecPage("timeout", "https", "https", {}, 0),
    SecPage("ok", "https", "https",
            {SecurityHeaders[i] : i \in 1..Len(SecurityHeaders)}, 0),
    SecPage("ok", "http", "https", {"Feature-Policy"}, 0),
    SecPage("ok", "https", "https", {}, 1) }

AggregateInputs ==
  [mobile : AggregateResponses, desktop : AggregateResponses, seo : SeoPages,
   accessibility : AccPages, security : SecPages]

-----------------------------------------------------------------------------
(* The analyzer as a state machine: it keeps no state between calls, so a     *)
(* call starts from the idle state and its result is discarded afterwards.    *)

NoValue == [none |-> TRUE]

\* the parts of the state a specification leaves alone, as they start
NoCall == request = NoValue /\ result = NoValue /\ attempted = <<>> /\ attempts = <<>>
NoSort == prioInput = <<>> /\ ranked = <<>>
NoMemory == earlier = NoValue /\ between = 0
NoReport == reportInput = NoValue /\ elements = <<>>
NoBot ==
  /\ scheduled_jobs = <<>>
  /\ scheduler = <<>>
  /\ conversation = <<>>
  /\ user_data = <<>>
  /\ issued = 0
  /\ update = NoValue
  /\ analyzerCalls = <<>>
  /\ analyzerResults = <<>>
  /\ tasks = <<>>
  /\ replies = <<>>

Init ==
  /\ op = "none"
  /\ NoCall
  /\ NoSort
  /\ NoMemory
  /\ NoReport
  /\ NoBot

\* a caller runs analyze(url, strategy) and the API answers resp
CallAnalyze ==
  /\ op = "none"
  /\ \E device \in {"mobile", "desktop"}, resp \in Responses :
       /\ request' = [strategy |-> device, response |-> resp]
       /\ result' = analyze(resp)
  /\ op' = "analyze"
  /\ UNCHANGED <<attempted, attempts, prioVars, repeatVars, reportVars, botVars>>

\* a caller runs analyze_with_all_metrics(url)
CallAnalyzeWithAllMetrics ==
  /\ op = "none"
  /\ \E inputs \in AggregateInputs :
       /\ request' = inputs
       /\ result' = analyze_with_all_metrics(inputs).value
       /\ attempted' = analyze_with_all_metrics(inputs).calls
  /\ op' = "analyze_with_all_metrics"
  /\ UNCHANGED <<attempts, prioVars, repeatVars, reportVars, botVars>>

\* the caller is done with the result; nothing of the call is kept
Discard ==
  /\ op \in {"analyze", "analyze_with_all_metrics"}
  /\ op' = "none"
  /\ request' = NoValue
  /\ result' = NoValue
  /\ attempted' = <<>>
  /\ UNCHANGED <<attempts, prioVars, repeatVars, reportVars, botVars>>

Next == CallAnalyze \/ CallAnalyzeWithAllMetrics \/ Discard

Spec == Init /\ [][Next]_vars

-----------------------------------------------------------------------------
(* Claims about analyze, the classifier and the extraction *)

Range(seq) == {seq[i] : i \in 1..Len(seq)}

\* the last call was analyze(url, strategy)
Analyzed == op = "analyze"

\* ... and the API answered a complete body; Audits is its audits
AnalyzedComplete ==
  /\ op = "analyze"
  /\ request.response.kind = "json"
  /\ request.response.error = "absent"
  /\ request.response.lighthouse = "complete"

Audits == request.response.audits

\* the upstream outcomes the claim lists
UpstreamFailure(resp) ==
  \/ resp.kind # "json"
  \/ resp.error # "absent"
  \/ resp.lighthouse # "complete"

\* C1: analyze never raises past its boundary: what it returns is a mapping
\* that has "error", or one that has score, metrics and recommendations and no
\* "error"; every upstream failure (transport, timeout, non-2xx, an error
\* object, no lighthouseResult, a missing nested field) gives the former, and
\* a complete body whose key metrics all carry a number the latter.
C1_AnalyzeReturnsErrorOrResult ==
  Analyzed =>
    /\ \/ "error" \in DOMAIN result
       \/ /\ {"score", "metrics", "recommendations"} \subseteq DOMAIN result
          /\ "error" \notin DOMAIN result
    /\ UpstreamFailure(request.response) => "error" \in DOMAIN result
    /\ (/\ ~UpstreamFailure(request.response)
        /\ \A i \in MetricAudits(Audits) :
             Audits[i].shape = "mapping" /\ Audits[i].score.tag = "num")
       => "error" \notin DOMAIN result

\* C1 witness: the body lacks the nested performance score and analyze
\* returned an error mapping
C1_Witness ==
  /\ Analyzed
  /\ request.response.kind = "json"
  /\ request.response.error = "absent"
  /\ request.response.lighthouse = "no_score"
  /\ DOMAIN result = {"error"}

Aggregated == op = "analyze_with_all_metrics"

\* C2: in analyze_with_all_metrics every sub-check is attempted whatever the
\* others did, the result of each sub-check that succeeded is in the
\* aggregate, and the aggregate has no top-level error.
C2_SubChecksIndependent ==
  Aggregated =>
    /\ attempted = SubChecks
    /\ "error" \notin DOMAIN result
    /\ \A d \in {"mobile", "desktop"} :
         ~Failed(SubCheck(request, d)) =>
           /\ d \in DOMAIN result.pagespeed
           /\ result.pagespeed[d] = SubCheck(request, d)
    /\ \A k \in {"seo", "accessibility", "security"} :
         ~Failed(SubCheck(request, k)) =>
           /\ k \in DOMAIN result
           /\ result[k] = SubCheck(request, k)

\* C2 witness: security and mobile speed failed, SEO succeeded and is populated
C2_Witness ==
  /\ Aggregated
  /\ Failed(SubCheck(request, "security"))
  /\ Failed(SubCheck(request, "mobile"))
  /\ ~Failed(SubCheck(request, "seo"))
  /\ "recommendations" \in DOMAIN result.seo

\* C3: in the aggregate the key of a sub-check is present iff the sub-check
\* succeeded, and never present with an empty placeholder.
C3_FailedKeyAbsent ==
  Aggregated =>
    /\ \A d \in {"mobile", "desktop"} :
         d \in DOMAIN result.pagespeed <=> ~Failed(SubCheck(request, d))
    /\ \A k \in {"seo", "accessibility", "security"} :
         /\ k \in DOMAIN result <=> ~Failed(SubCheck(request, k))
         /\ k \in DOMAIN result => DOMAIN result[k] # {}

\* the rating the claim gives a numeric score
RatingOfScore(n) ==
  IF n >= 90 THEN "good" ELSE IF n >= 50 THEN "average" ELSE "poor"

\* C4 as stated, on the key metric entries whose score is a number or
\* missing: the rating is good iff score >= 0.9, average iff 0.5 <= score <
\* 0.9, poor iff score < 0.5, and not_available iff the score is absent.
C4_RatingAsStated ==
  AnalyzedComplete =>
    \A i \in MetricAudits(Audits) :
      (Audits[i].shape = "mapping" /\ Audits[i].score.tag # "null") =>
        LET r == get_metric_rating(Audits[i])
        IN /\ r.raised = "none"
           /\ Audits[i].score.tag = "num" => r.val = RatingOfScore(Audits[i].score.v)
           /\ r.val = "not_available" <=> Audits[i].score.tag = "absent"

\* C4 amended: on a numeric score the rating is good iff score >= 0.9, average
\* iff 0.5 <= score < 0.9, poor iff score < 0.5; when the score key is missing
\* the rating is the entry's scoreDisplayMode, and "not_available" only when
\* that is missing too; a score that is present with null is not classified
\* (the comparison raises TypeError). The ratings analyze returns are these.
C4_RatingAmended ==
  AnalyzedComplete =>
    /\ \A i \in MetricAudits(Audits) :
         Audits[i].shape = "mapping" =>
           LET r == get_metric_rating(Audits[i])
               a == Audits[i]
           IN /\ a.score.tag = "num" =>
                   /\ r.raised = "none"
                   /\ r.val = "good" <=> a.score.v >= 90
                   /\ r.val = "average" <=> (50 <= a.score.v /\ a.score.v < 90)
                   /\ r.val = "poor" <=> a.score.v < 50
              /\ a.score.tag = "absent" =>
                   /\ r.raised = "none"
                   /\ a.mode # "absent" => r.val = a.mode
                   /\ a.mode = "absent" => r.val = "not_available"
              /\ a.score.tag = "null" => r.raised = "TypeError"
    /\ "metrics" \in DOMAIN result =>
         \A i \in MetricAudits(Audits) :
           /\ KEY_METRICS[Audits[i].id] \in DOMAIN result.metrics
           /\ result.metrics[KEY_METRICS[Audits[i].id]].rating \in
                {"good", "average", "poor", "not_available", Audits[i].mode}
           /\ Audits[i].score.tag = "num" =>
                result.metrics[KEY_METRICS[Audits[i].id]].rating =
                  RatingOfScore(Audits[i].score.v)

\* C4 witness: a key metric without a score key and with a scoreDisplayMode is
\* rated with that mode
C4_Witness ==
  /\ AnalyzedComplete
  /\ "metrics" \in DOMAIN result
  /\ \E i \in MetricAudits(Audits) :
       /\ Audits[i].shape = "mapping"
       /\ Audits[i].score.tag = "absent"
       /\ Audits[i].mode = "numeric"
       /\ result.metrics[KEY_METRICS[Audits[i].id]].rating = "numeric"

\* C5: the classifier has no failure mode: for a key metric entry whose score
\* is a number, missing or null it yields a rating without raising, so a key
\* metric with no usable score never makes analyze return an error.
C5_ClassifierNeverFails ==
  (AnalyzedComplete /\ \A i \in 1..Len(Audits) : Audits[i].shape = "mapping") =>
    /\ \A i \in MetricAudits(Audits) : get_metric_rating(Audits[i]).raised = "none"
    /\ "error" \notin DOMAIN result

\* the last call was analyze on a complete body and it returned a result
Extracted == AnalyzedComplete /\ "error" \notin DOMAIN result

\* position in the batch of the entry with this title (titles are unique)
PosOf(title) == CHOOSE i \in 1..Len(Audits) : Audits[i].title = title

\* the number of "other" entries before position i
OthersBefore(i) ==
  Cardinality({j \in 1..(i - 1) : AuditOutcome(Audits[j]) = "other"})

Listed(i) == Audits[i].title \in Range(result.recommendations)

\* C6: extraction is fail-soft per item: whatever else is in the batch, every
\* entry that is classified on its own (critical, important, or one of the
\* first ten other) appears in the recommendations.
C6_FailSoftPerItem ==
  Extracted =>
    \A i \in 1..Len(Audits) :
      (\/ AuditOutcome(Audits[i]) \in {"critical", "important"}
       \/ AuditOutcome(Audits[i]) = "other" /\ OthersBefore(i) < OtherLimit)
      => Listed(i)

\* priority class of an entry: critical over important over other
ClassRank(audit) ==
  CASE AuditOutcome(audit) = "critical" -> 3
    [] AuditOutcome(audit) = "important" -> 2
    [] AuditOutcome(audit) = "other" -> 1
    [] OTHER -> 0

\* C7: the recommendations list is sorted by priority class descending, and
\* entries of the same class keep the audit iteration order. Stated on each
\* pair of neighbours of the list: (class descending, audit position
\* ascending) is a total order, so the neighbours decide every pair.
C7_SortedByPriorityStable ==
  Extracted =>
    \A i \in 1..(Len(result.recommendations) - 1) :
      LET a == PosOf(result.recommendations[i])
          b == PosOf(result.recommendations[i + 1])
      IN /\ ClassRank(Audits[a]) >= ClassRank(Audits[b])
         /\ ClassRank(Audits[a]) = ClassRank(Audits[b]) => a < b

\* C7 witness: a list of three classes in which an entry of a higher class
\* stands before one that came earlier in the audits, and two entries of one
\* class stand in audit order
C7_Witness ==
  /\ Extracted
  /\ Len(result.recommendations) >= 3
  /\ \E i, j \in 1..Len(result.recommendations) :
       /\ i < j
       /\ PosOf(result.recommendations[i]) > PosOf(result.recommendations[j])
  /\ \E i, j \in 1..Len(result.recommendations) :
       /\ i < j
       /\ ClassRank(Audits[PosOf(result.recommendations[i])])
            = ClassRank(Audits[PosOf(result.recommendations[j])])

SummaryTotal ==
  result.recommendation_priorities.critical
  + result.recommendation_priorities.important
  + result.recommendation_priorities.other

Min(a, b) == IF a < b THEN a ELSE b

\* C8 as stated: the total of the per-class counts of the summary equals the
\* number of recommendations in the returned list.
C8_SummaryTotalIsListLength ==
  (Extracted /\ "recommendation_priorities" \in DOMAIN result) =>
    SummaryTotal = Len(result.recommendations)

\* C8 amended: the summary counts every classified entry of the batch, class
\* by class, while the list holds only the first ten of the other class: its
\* length is critical + important + min(other, 10), which is the total of the
\* counts only when other <= 10.
C8_SummaryCountsAllListTruncated ==
  (Extracted /\ "recommendation_priorities" \in DOMAIN result) =>
    /\ \A c \in {"critical", "important", "other"} :
         result.recommendation_priorities[c] =
           Cardinality({i \in 1..Len(Audits) : AuditOutcome(Audits[i]) = c})
    /\ Len(result.recommendations) =
         result.recommendation_priorities.critical
         + result.recommendation_priorities.important
         + Min(result.recommendation_priorities.other, 10)

\* C8 witness: more than ten entries of the other class, so the list is shorter
\* than the total of the counts
C8_Witness ==
  /\ Extracted
  /\ "recommendation_priorities" \in DOMAIN result
  /\ result.recommendation_priorities.other > 10
  /\ result.recommendation_priorities.critical > 0
  /\ Len(result.recommendations) < SummaryTotal

\* the display mode of an entry as the claim reads it: opportunity for an
\* opportunity, otherwise its scoreDisplayMode
DisplayModeOf(audit) ==
  IF audit.details = "opportunity" THEN "opportunity" ELSE audit.mode

\* what the claim discards
DiscardedAsStated(audit) ==
  \/ audit.title = NoTitle
  \/ audit.score.tag = "num" /\ audit.score.v = 100
  \/ DisplayModeOf(audit) \notin {"opportunity", "numeric", "binary"}

\* this iteration raises: the entry is no mapping, or it passes the first test
\* and has details that are no mapping, or a null score that reaches `<= 0.5`
RaisesInLoop(audit) ==
  \/ audit.shape # "mapping"
  \/ /\ audit.title # NoTitle
     /\ ~(audit.score.tag = "num" /\ audit.score.v = 100)
     /\ \/ audit.details = "not_mapping"
        \/ /\ audit.score.tag = "null"
           /\ ~(audit.details = "opportunity" /\ audit.id \in CriticalIds)

\* what the code keeps: a title, no perfect score, and either an opportunity
\* or a score of at most 0.5
Kept(audit) ==
  /\ audit.title # NoTitle
  /\ ~(audit.score.tag = "num" /\ audit.score.v = 100)
  /\ \/ audit.details = "opportunity"
     \/ audit.score.tag = "num" /\ audit.score.v <= 50

\* C9 as stated, on the batches in which every entry has a numeric score, no
\* entry raises and at most ten entries are of the other class: an entry is
\* in the recommendations iff it has a title, no perfect score, and a display
\* mode among opportunity, numeric, binary.
C9_DiscardAsStated ==
  (/\ Extracted
   /\ \A i \in 1..Len(Audits) : ~RaisesInLoop(Audits[i])
   /\ \A i \in 1..Len(Audits) : Audits[i].score.tag = "num"
   /\ OthersBefore(Len(Audits) + 1) <= OtherLimit) =>
    \A i \in 1..Len(Audits) : Listed(i) <=> ~DiscardedAsStated(Audits[i])

\* C9 amended: when an entry of the batch raises inside the loop (it is no
\* mapping, or it has a title and no perfect score and either details that
\* are no mapping or a null score that reaches the comparison), the list is
\* empty and there is no summary. Otherwise the entries kept are exactly those
\* that have a title, no perfect score, and are an opportunity
\* (details.type) or have a score of at most 0.5, whatever their display
\* mode; every kept entry is counted in the summary, and listed unless it is
\* of the other class and ten of that class precede it.
C9_DiscardAmended ==
  Extracted =>
    IF \E i \in 1..Len(Audits) : RaisesInLoop(Audits[i])
    THEN /\ result.recommendations = <<>>
         /\ "recommendation_priorities" \notin DOMAIN result
    ELSE /\ "recommendation_priorities" \in DOMAIN result
         /\ SummaryTotal = Cardinality({i \in 1..Len(Audits) : Kept(Audits[i])})
         /\ \A i \in 1..Len(Audits) :
              Listed(i) <=>
                /\ Kept(Audits[i])
                /\ \/ ClassRank(Audits[i]) > 1
                   \/ OthersBefore(i) < 10

\* C9 witness: an entry with a title, display mode numeric and score 0.89 that
\* is no opportunity is discarded, beside an entry that is kept
C9_Witness ==
  /\ Extracted
  /\ "recommendation_priorities" \in DOMAIN result
  /\ Len(result.recommendations) > 0
  /\ \E i \in 1..Len(Audits) :
       /\ Audits[i].title # NoTitle
       /\ Audits[i].mode \in {"numeric", "binary"}
       /\ Audits[i].score = Num(89)
       /\ ~Listed(i)

-----------------------------------------------------------------------------
(* Claims about the declared savings of an audit entry. The analyzer assigns  *)
(* an entry no impact level, difficulty level or category: what it assigns is *)
(* the class (critical, important, other) whose list the title is appended    *)
(* to, and the place in result.recommendations that follows from it.          *)

\* the impact thresholds of the specification (section 4.2, step 3)
HighSavingsMs == 1000
MediumSavingsMs == 250

\* place of a listed entry's title in result.recommendations
ListIndex(i) ==
  CHOOSE k \in 1..Len(result.recommendations) :
    result.recommendations[k] = Audits[i].title

\* the class a listed entry was given, read off the result: the list holds the
\* critical titles, then the important ones, then the other ones
ClassListed(i) ==
  IF ListIndex(i) <= result.recommendation_priorities.critical THEN "critical"
  ELSE IF ListIndex(i) <= result.recommendation_priorities.critical
                            + result.recommendation_priorities.important
    THEN "important"
  ELSE "other"

Summarised == Extracted /\ "recommendation_priorities" \in DOMAIN result

\* the entry of the claim: {id: render-blocking-resources, score: 0,
\* displayMode: opportunity, overallSavingsMs: 1200}
RenderBlocking == Opportunity("render-blocking-resources", 0, 1200)

HighImpact(audit) == audit.savings.tag = "num" /\ audit.savings.v >= HighSavingsMs

-----------------------------------------------------------------------------
(* Repeated calls: an observer remembers one call (its input and what it     *)
(* returned) while further calls run, on the same input or on other ones.    *)

\* the batches of the repeated calls: none, one or two sample entries, and the
\* longest run of diagnostics
RepeatBatches == {b \in SampleBatches : Len(b) <= 2} \cup {Filler(MaxFill)}

RepeatResponses ==
  {FailedResponse("timeout")}
  \cup {Response("json", "absent", "complete", 92, b) : b \in RepeatBatches}

Remembered == "response" \in DOMAIN earlier

InitRepeat ==
  /\ op = "none"
  /\ NoCall
  /\ NoSort
  /\ NoMemory
  /\ NoReport
  /\ NoBot

\* a caller runs analyze(url, strategy) and the API answers resp
CallAnalyzeAgain ==
  /\ op = "none"
  /\ \E device \in {"mobile", "desktop"}, resp \in RepeatResponses :
       /\ request' = [strategy |-> device, response |-> resp]
       /\ result' = analyze(resp)
       /\ between' = IF Remembered /\ resp # earlier.response
                        /\ between < MaxBetween
                      THEN between + 1 ELSE between
  /\ op' = "analyze"
  /\ UNCHANGED <<attempted, attempts, prioVars, earlier, reportVars, botVars>>

\* the caller is done with the result; the observer remembers the call
Remember ==
  /\ op = "analyze"
  /\ earlier' = [response |-> request.response, result |-> result]
  /\ between' = 0
  /\ op' = "none"
  /\ request' = NoValue
  /\ result' = NoValue
  /\ UNCHANGED <<attempted, attempts, prioVars, reportVars, botVars>>

NextRepeat == CallAnalyzeAgain \/ Remember \/ Discard

SpecRepeat == InitRepeat /\ [][NextRepeat]_vars

-----------------------------------------------------------------------------
(* The priority sort on its own: the input is drawn, then sorted *)

RecLists ==
  UNION {[1..n -> [impact : ImpactLevels, difficulty : DifficultyLevels]] :
           n \in 0..MaxRecs}

InitPrio ==
  /\ op = "none"
  /\ NoCall
  /\ prioInput \in RecLists
  /\ ranked = <<>>
  /\ NoMemory
  /\ NoReport
  /\ NoBot

\* step 6 of the Prioritizer on the recommendations of prioInput
Prioritize ==
  /\ op = "none"
  /\ op' = "prioritize"
  /\ ranked' = SortByPriority(prioInput)
  /\ UNCHANGED <<request, result, attempted, attempts, prioInput, repeatVars, reportVars,
                 botVars>>

NextPrio == Prioritize

SpecPrio == InitPrio /\ [][NextPrio]_vars

Prioritized == op = "prioritize"

Rec(impact, difficulty) == [impact |-> impact, difficulty |-> difficulty]

\* C10 as stated: in the resulting order high-impact/easy stands above
\* high-impact/hard, and every item of a higher impact level stands above
\* every item of a lower one (high/hard above medium/easy, and so on down).
C10_ImpactDominates ==
  Prioritized =>
    \A i, j \in 1..Len(ranked) :
      i < j =>
        /\ ~(ranked[i] = Rec("high", "hard") /\ ranked[j] = Rec("high", "easy"))
        /\ ImpactWeight(ranked[i].impact) >= ImpactWeight(ranked[j].impact)

\* C10 amended: with that formula the order ranks high/easy (3.03) above
\* high/hard (1.03), but medium/easy (2.02) above high/hard; an item of a
\* higher impact level outranks an item of a lower one whenever it is not
\* harder, and an item never stands above an easier one of its own level.
C10_OrderByRatio ==
  Prioritized =>
    \A i, j \in 1..Len(ranked) :
      i < j =>
        /\ ~(ranked[i] = Rec("high", "hard") /\ ranked[j] = Rec("high", "easy"))
        /\ ~(ranked[i] = Rec("high", "hard") /\ ranked[j] = Rec("medium", "easy"))
        /\ ImpactWeight(ranked[i].impact) < ImpactWeight(ranked[j].impact)
             => DifficultyWeight(ranked[i].difficulty)
                  < DifficultyWeight(ranked[j].difficulty)
        /\ ranked[i].impact = ranked[j].impact
             => DifficultyWeight(ranked[i].difficulty)
                  <= DifficultyWeight(ranked[j].difficulty)

\* C10 witness: high/hard came first in the input and is ranked behind
\* high/easy and behind medium/easy
C10_Witness ==
  /\ Prioritized
  /\ prioInput = <<Rec("high", "hard"), Rec("medium", "easy"), Rec("high", "easy")>>
  /\ ranked = <<Rec("high", "easy"), Rec("medium", "easy"), Rec("high", "hard")>>

\* C11: the priority score is strictly monotone. Of two recommendations of one
\* difficulty the one of the higher impact level has the greater score, of two
\* of one impact level the easier one has the greater score (high/easy above
\* high/hard in particular), and of two with the same ratio of impact weight
\* to difficulty weight the one of the higher impact level has the greater
\* score; the one with the greater score stands first in the order.
C11_PriorityStrictlyMonotone ==
  Prioritized =>
    \A i, j \in 1..Len(ranked) :
      LET a == ranked[i]
          b == ranked[j]
          iwa == ImpactWeight(a.impact)
          iwb == ImpactWeight(b.impact)
          dwa == DifficultyWeight(a.difficulty)
          dwb == DifficultyWeight(b.difficulty)
      IN /\ (dwa = dwb /\ iwa > iwb) => (Priority(a) > Priority(b) /\ i < j)
         /\ (iwa = iwb /\ dwa < dwb) => (Priority(a) > Priority(b) /\ i < j)
         /\ (iwa * dwb = iwb * dwa /\ iwa > iwb)
              => (Priority(a) > Priority(b) /\ i < j)

\* C11 witness: the three pairs of ratio 1 came in ascending order of impact
\* and are ranked in descending order of impact
C11_Witness ==
  /\ Prioritized
  /\ prioInput = <<Rec("low", "easy"), Rec("medium", "medium"), Rec("high", "hard")>>
  /\ ranked = <<Rec("high", "hard"), Rec("medium", "medium"), Rec("low", "easy")>>

-----------------------------------------------------------------------------
(* The report composer (pdf_generator.py). generate_report collects the      *)
(* elements of the document in a list and hands the list to doc.build; the   *)
(* list is what is modelled. An element is a paragraph, a spacer or a table, *)
(* and carries the name of the part of generate_report that appended it. The *)
(* texts are Ukrainian in the source; their English meaning stands for them. *)
(* A formatted text is the tuple of its pieces, so f"{score}/100" is         *)
(* <<score, "/100">>.                                                        *)

\* most distinct recommendation titles in the two lists of one report
MaxReportRecs == 2

\* Python's None; an empty dict is the empty function <<>>
None == [py_none |-> TRUE]

\* `if not x` on a results argument: None or an empty dict
Falsy(x) == DOMAIN x = {} \/ "py_none" \in DOMAIN x

Paragraph(section, style, text) ==
  [section |-> section, kind |-> "paragraph", style |-> style, text |-> text,
   rows |-> <<>>, bands |-> <<>>]

Spacer(section) ==
  [section |-> section, kind |-> "spacer", style |-> "none", text |-> <<>>,
   rows |-> <<>>, bands |-> <<>>]

\* a table: its rows, and the colour band of each data row
Table(section, rows, bands) ==
  [section |-> section, kind |-> "table", style |-> "none", text |-> <<>>,
   rows |-> rows, bands |-> bands]

PERFORMANCE_RATINGS ==
  [good |-> [min |-> 90, status |-> "Excellent"],
   average |-> [min |-> 50, status |-> "Satisfactory"],
   poor |-> [min |-> 0, status |-> "Needs improvement"]]

\* a faulty variant: a score has to exceed the minimum of a rating
get_score_status_strict(score) ==
  LET met == {r \in DOMAIN PERFORMANCE_RATINGS :
                score > PERFORMANCE_RATINGS[r].min}
  IN IF met = {} THEN PERFORMANCE_RATINGS["poor"].status
     ELSE PERFORMANCE_RATINGS[
            CHOOSE r \in met : \A q \in met :
              PERFORMANCE_RATINGS[q].min <= PERFORMANCE_RATINGS[r].min].status

\* get_score_status(score): the ratings sorted by min descending, the status
\* of the first whose min the score reaches. The scores of a results mapping
\* are ints, which int(score) leaves as they are.
get_score_status(score) ==
  LET met == {r \in DOMAIN PERFORMANCE_RATINGS :
                score >= PERFORMANCE_RATINGS[r].min}
  IN IF met = {} THEN PERFORMANCE_RATINGS["poor"].status
     ELSE PERFORMANCE_RATINGS[
            CHOOSE r \in met : \A q \in met :
              PERFORMANCE_RATINGS[q].min <= PERFORMANCE_RATINGS[r].min].status

\* results.get("score", 0) if results else 0
ScoreOf(results) ==
  IF Falsy(results) THEN 0
  ELSE IF "score" \in DOMAIN results THEN results.score
  ELSE 0

\* the colour of a score: int(row[1].split("/")[0]) is the first piece of the
\* cell
ScoreBand(cell) ==
  IF cell[1] >= 90 THEN "good" ELSE IF cell[1] >= 50 THEN "average" ELSE "poor"

\* _add_header_and_info(elements, url); now is datetime.now() as formatted
add_header_and_info(url, now) ==
  << Paragraph("header", "title", <<"Site speed analysis report">>),
     Spacer("header"),
     Paragraph("header", "normal", <<"URL: ", url>>),
     Paragraph("header", "normal", <<"Date of analysis: ", now>>),
     Spacer("header") >>

\* _add_performance_scores(elements, mobile_results, desktop_results, width)
add_performance_scores(mobile_results, desktop_results) ==
  LET mobile_score == ScoreOf(mobile_results)
      desktop_score == ScoreOf(desktop_results)
      data == << <<"Device", "Score", "Status">>,
                 <<"Mobile", <<mobile_score, "/100">>,
                   get_score_status(mobile_score)>>,
                 <<"Desktop", <<desktop_score, "/100">>,
                   get_score_status(desktop_score)>> >>
  IN << Paragraph("scores", "heading", <<"Overall performance scores">>),
        Spacer("scores"),
        Table("scores", data, <<ScoreBand(data[2][2]), ScoreBand(data[3][2])>>),
        Spacer("scores") >>

\* the display names in the order the analyzer inserts them (KEY_METRICS), so
\* in the order metrics.items() yields them
MetricOrder ==
  <<"First content", "Speed index", "Largest content", "Time to interactive",
    "Total blocking time", "Cumulative layout shift">>

InMapping(mapping) == LET Has(name) == name \in DOMAIN mapping
                      IN SelectSeq(MetricOrder, Has)

\* row[2].lower() compared with "good" and "average"
RatingBand(rating) ==
  IF rating = "good" THEN "good"
  ELSE IF rating = "average" THEN "average"
  ELSE "poor"

\* a faulty variant: a section is rendered for an empty metrics mapping too
add_metrics_section_render_empty(section, title, metrics) ==
  LET names == InMapping(metrics)
  IN << Paragraph(section, "heading", <<title>>),
        Spacer(section),
        Table(section,
              << <<"Metric", "Value", "Rating">> >>
              \o [i \in 1..Len(names) |->
                    <<names[i], metrics[names[i]].value, metrics[names[i]].rating>>],
              [i \in 1..Len(names) |-> RatingBand(metrics[names[i]].rating)]),
        Spacer(section) >>

\* _add_metrics_section(elements, title, metrics, width)
add_metrics_section(section, title, metrics) ==
  IF DOMAIN metrics = {} THEN <<>>
  ELSE LET names == InMapping(metrics)
       IN << Paragraph(section, "heading", <<title>>),
             Spacer(section),
             Table(section,
                   << <<"Metric", "Value", "Rating">> >>
                   \o [i \in 1..Len(names) |->
                         <<names[i], metrics[names[i]].value,
                           metrics[names[i]].rating>>],
                   [i \in 1..Len(names) |-> RatingBand(metrics[names[i]].rating)]),
             Spacer(section) >>

\* create_bar(score): int(round(score / 100 * 20)) blocks, at least one for a
\* positive score. score / 5 is never halfway between two integers, so the
\* rounding is to the nearest.
create_bar(score) ==
  LET bar_length == (2 * score + 5) \div 10
  IN IF score > 0 /\ bar_length = 0 THEN 1 ELSE bar_length

\* _add_performance_chart(elements, mobile_results, desktop_results, width);
\* a bar is the number of its blocks
add_performance_chart(mobile_results, desktop_results) ==
  LET mobile_score == ScoreOf(mobile_results)
      desktop_score == ScoreOf(desktop_results)
      data == << <<"Platform", "Visualization (one block = 5 points)", "">>,
                 <<<<"Mobile (", mobile_score, "/100)">>, create_bar(mobile_score),
                   <<mobile_score, "%">>>>,
                 <<<<"Desktop (", desktop_score, "/100)">>,
                   create_bar(desktop_score), <<desktop_score, "%">>>> >>
  IN << Paragraph("chart", "heading", <<"Performance comparison">>),
        Spacer("chart"),
        Table("chart", data,
              <<ScoreBand(<<mobile_score>>), ScoreBand(<<desktop_score>>)>>),
        Spacer("chart") >>

\* The titles of the recommendations. What the composer reads of a title is
\* which of its keyword lists have a word that occurs in the lowered title:
\*   "high"   high_priority_keywords (LCP, FCP, Time to Interactive, ...)
\*   "image"  the image keywords, "code" the code keywords (css, js, ...),
\*   "perf"   the general performance keywords (cache, time, loading, ...)
Mentions ==
  [title \in {"Properly size images", "Serve images in modern formats",
              "Remove unused CSS that delays First Contentful Paint",
              "Use an efficient cache policy", "Avoid an excessive DOM size",
              "Optimize the loading of images"} |->
     CASE title = "Properly size images" -> {"image"}
       [] title = "Serve images in modern formats" -> {"image"}
       [] title = "Remove unused CSS that delays First Contentful Paint"
            -> {"code", "high"}
       [] title = "Use an efficient cache policy" -> {"perf"}
       [] title = "Avoid an excessive DOM size" -> {}
       [] title = "Optimize the loading of images" -> {"image", "perf"}]

Titles == DOMAIN Mentions

\* a faulty variant: the tests on the keyword lists are separate ifs, so a
\* title lands in every category it has a word of
RecsOf_every_match(all_recommendations, category, high) ==
  LET In(rec) ==
        /\ IF category = "other" THEN Mentions[rec] \cap {"image", "code", "perf"} = {}
           ELSE category \in Mentions[rec]
        /\ category # "other" => (high <=> "high" \in Mentions[rec])
  IN SelectSeq(all_recommendations, In)

\* the loop over all_recommendations: the titles of one category and one
\* priority, in the order of all_recommendations
RecsOf(all_recommendations, category, high) ==
  LET In(rec) ==
        /\ category =
             IF "image" \in Mentions[rec] THEN "image"
             ELSE IF "code" \in Mentions[rec] THEN "code"
             ELSE IF "perf" \in Mentions[rec] THEN "perf"
             ELSE "other"
        /\ category # "other" => (high <=> "high" \in Mentions[rec])
  IN SelectSeq(all_recommendations, In)

\* _add_recommendation_category(elements, title, high_priority_items,
\* normal_priority_items)
add_recommendation_category(title, high_priority_items, normal_priority_items) ==
  IF high_priority_items = <<>> /\ normal_priority_items = <<>> THEN <<>>
  ELSE <<Paragraph("recommendations", "subheading", <<title>>)>>
       \o [i \in 1..Len(high_priority_items) |->
             Paragraph("recommendations", "normal",
                       <<"[!!!] ", high_priority_items[i]>>)]
       \o [i \in 1..Len(normal_priority_items) |->
             Paragraph("recommendations", "normal",
                       <<"[!] ", normal_priority_items[i]>>)]
       \o <<Spacer("recommendations")>>

\* _add_recommendations_section(elements, mobile_recs, desktop_recs), where
\* all_recommendations is list(set(mobile_recs + desktop_recs)): the distinct
\* titles in the order the set yields them
add_recommendations_section(all_recommendations) ==
  IF all_recommendations = <<>> THEN <<>>
  ELSE LET other_recs == RecsOf(all_recommendations, "other", FALSE)
       IN << Paragraph("recommendations", "heading",
                       <<"Optimization recommendations">>),
             Spacer("recommendations"),
             Paragraph("recommendations", "normal",
                       <<"Recommendations for improving the site's performance">>),
             Spacer("recommendations") >>
          \o add_recommendation_category("Image optimization:",
               RecsOf(all_recommendations, "image", TRUE),
               RecsOf(all_recommendations, "image", FALSE))
          \o add_recommendation_category("Code optimization:",
               RecsOf(all_recommendations, "code", TRUE),
               RecsOf(all_recommendations, "code", FALSE))
          \o add_recommendation_category("General performance:",
               RecsOf(all_recommendations, "perf", TRUE),
               RecsOf(all_recommendations, "perf", FALSE))
          \o (IF other_recs = <<>> THEN <<>>
              ELSE <<Paragraph("recommendations", "subheading",
                               <<"Other recommendations:">>)>>
                   \o [i \in 1..Len(other_recs) |->
                         Paragraph("recommendations", "normal",
                                   <<"* ", other_recs[i]>>)])
          \o << Spacer("recommendations"),
                Paragraph("recommendations", "subheading",
                          <<"Recommendation priorities:">>),
                Paragraph("recommendations", "small", <<"[!!!] High priority">>),
                Paragraph("recommendations", "small", <<"[!] Medium priority">>),
                Paragraph("recommendations", "small", <<"* Low priority">>) >>

\* results.get("recommendations", [])
RecsIn(results) ==
  IF "recommendations" \in DOMAIN results THEN results.recommendations ELSE <<>>

MetricsPart(section, title, results) ==
  IF ~Falsy(results) /\ "metrics" \in DOMAIN results
  THEN add_metrics_section(section, title, results.metrics)
  ELSE <<>>

RecommendationsPart(mobile_results, desktop_results, all_recommendations) ==
  IF ~Falsy(mobile_results) /\ ~Falsy(desktop_results)
  THEN add_recommendations_section(all_recommendations)
  ELSE <<>>

\* a faulty variant: the bar visualization is built before the metrics tables
generate_report_chart_first(url, now, mobile_results, desktop_results, all_recommendations) ==
  add_header_and_info(url, now)
  \o add_performance_scores(mobile_results, desktop_results)
  \o add_performance_chart(mobile_results, desktop_results)
  \o MetricsPart("mobile_metrics", "Metrics for mobile devices", mobile_results)
  \o MetricsPart("desktop_metrics", "Metrics for computers", desktop_results)
  \o RecommendationsPart(mobile_results, desktop_results, all_recommendations)

\* generate_report(url, mobile_results, desktop_results): the elements list
\* handed to doc.build
generate_report(url, now, mobile_results, desktop_results, all_recommendations) ==
  add_header_and_info(url, now)
  \o add_performance_scores(mobile_results, desktop_results)
  \o MetricsPart("mobile_metrics", "Metrics for mobile devices", mobile_results)
  \o MetricsPart("desktop_metrics", "Metrics for computers", desktop_results)
  \o add_performance_chart(mobile_results, desktop_results)
  \o RecommendationsPart(mobile_results, desktop_results, all_recommendations)

-----------------------------------------------------------------------------
(* The arguments generate_report is called with *)

\* the scores of the two results: the bounds of the three status bands, and
\* the scores 45 and 92
ReportScores == {0, 45, 49, 50, 89, 90, 92, 100}

\* results["metrics"] as analyze builds it: empty when the audits hold no key
\* metric, else display name -> value and rating
MetricMappings ==
  { <<>>,
    [name \in {"First content"} |-> [value |-> "4.2 s", rating |-> "poor"]],
    [name \in {"First content", "Speed index"} |->
       IF name = "First content" THEN [value |-> "0.8 s", rating |-> "good"]
       ELSE [value |-> "N/A", rating |-> "informative"]] }

\* a results mapping as analyze returns it without an error
Results(score, metrics, recommendations) ==
  [score |-> score, metrics |-> metrics, recommendations |-> recommendations]

\* lists of distinct titles
TitleLists ==
  {l \in UNION {[1..n -> Titles] : n \in 0..MaxReportRecs} :
     \A i, j \in 1..Len(l) : i # j => l[i] # l[j]}

\* what a caller may hand over for one device besides a mapping of analyze:
\* None, an empty mapping, a mapping without metrics and recommendations
PartialResults == {None, <<>>, [score |-> 45]}

ReportInputs ==
  \* every pair of scores
  {[mobile |-> Results(m, <<>>, <<>>), desktop |-> Results(d, <<>>, <<>>)] :
     m \in ReportScores, d \in ReportScores}
  \* every pair of metrics mappings, with and without a recommendation
  \cup {[mobile |-> Results(45, mm, r), desktop |-> Results(92, dm, r)] :
          mm \in MetricMappings, dm \in MetricMappings,
          r \in {<<>>, <<"Properly size images">>}}
  \* a missing or partial result on either side
  \cup {[mobile |-> m, desktop |-> d] :
          m \in PartialResults
                \cup {Results(45, <<>>, <<"Properly size images">>)},
          d \in PartialResults
                \cup {Results(92, <<>>, <<"Properly size images">>)}}
  \* every pair of recommendation lists of up to MaxReportRecs titles in all
  \cup {[mobile |-> Results(45, <<>>, p[1]), desktop |-> Results(92, <<>>, p[2])] :
          p \in {q \in TitleLists \X TitleLists :
                   Cardinality(Range(q[1]) \cup Range(q[2])) <= MaxReportRecs}}

\* the orders list(set(...)) can yield: every arrangement of the set
Arrangements(set) ==
  {l \in [1..Cardinality(set) -> set] :
     \A i, j \in 1..Len(l) : i # j => l[i] # l[j]}

\* mobile_recs + desktop_recs of a call whose two results are not empty
Combined(input) ==
  IF Falsy(input.mobile) \/ Falsy(input.desktop) THEN <<>>
  ELSE RecsIn(input.mobile) \o RecsIn(input.desktop)

ReportUrls == {"https://example.com"}
Timestamps == {"01.11.2026 09:00", "01.11.2026 09:01"}

InitReport ==
  /\ op = "none"
  /\ NoCall
  /\ NoSort
  /\ NoMemory
  /\ NoReport
  /\ NoBot

\* a caller runs generate_report(url, mobile_results, desktop_results)
GenerateReport ==
  /\ op = "none"
  /\ \E url \in ReportUrls, now \in Timestamps, input \in ReportInputs :
       \E all_recommendations \in Arrangements(Range(Combined(input))) :
         /\ reportInput' = [url |-> url, now |-> now, mobile |-> input.mobile,
                            desktop |-> input.desktop]
         /\ elements' = generate_report(url, now, input.mobile, input.desktop,
                                        all_recommendations)
  /\ op' = "generate_report"
  /\ UNCHANGED <<request, result, attempted, attempts, prioVars, repeatVars, botVars>>

\* the document is built from the elements and returned; the generator keeps
\* nothing of the call
ReportBuilt ==
  /\ op = "generate_report"
  /\ op' = "none"
  /\ reportInput' = NoValue
  /\ elements' = <<>>
  /\ UNCHANGED <<request, result, attempted, attempts, prioVars, repeatVars, botVars>>

NextReport == GenerateReport \/ ReportBuilt

SpecReport == InitReport /\ [][NextReport]_vars

-----------------------------------------------------------------------------
(* Claims about the report *)

Reported == op = "generate_report"

\* the elements a part of generate_report appended
Part(section) == SelectSeq(elements, LAMBDA e : e.section = section)

\* the places of the recommendation lines: the paragraphs whose text is a
\* priority mark and a title
RecLines ==
  {k \in 1..Len(elements) :
     /\ elements[k].section = "recommendations"
     /\ elements[k].style = "normal"
     /\ Len(elements[k].text) = 2}

\* the category a recommendation line stands under: the last subheading
\* before it
CategoryOf(k) ==
  LET heads == {h \in 1..k : elements[h].style = "subheading"}
  IN elements[CHOOSE h \in heads : \A g \in heads : g <= h].text

Precedes(list, a, b) ==
  \E i, j \in 1..Len(list) : i < j /\ list[i] = a /\ list[j] = b

\* C14: each group of the report retains the order of the analyzer's list:
\* two recommendations under the same category and with the same priority
\* mark stand in the order they have in the recommendations of the results
\* (stated for pairs whose order in the result lists is unambiguous: some
\* list holds the one before the other and none holds them the other way).
C14_GroupsRetainOrder ==
  Reported =>
    \A k, l \in RecLines :
      LET a == elements[k].text[2]
          b == elements[l].text[2]
          mobile_recs == RecsIn(reportInput.mobile)
          desktop_recs == RecsIn(reportInput.desktop)
      IN (/\ CategoryOf(k) = CategoryOf(l)
          /\ elements[k].text[1] = elements[l].text[1]
          /\ Precedes(mobile_recs, a, b) \/ Precedes(desktop_recs, a, b)
          /\ ~Precedes(mobile_recs, b, a)
          /\ ~Precedes(desktop_recs, b, a))
         => k < l

SectionOrder ==
  <<"header", "scores", "mobile_metrics", "desktop_metrics", "chart",
    "recommendations">>

SectionRank(section) == CHOOSE r \in 1..Len(SectionOrder) : SectionOrder[r] = section

\* C16: generate_report builds the sections in a fixed order: the header with
\* the url and the timestamp, then the score table, the mobile metrics table,
\* the desktop metrics table, the bar visualization of the two scores and the
\* recommendations; no element of a section stands before an element of a
\* section that precedes it in this order, and the header, the score table and
\* the bars are always there.
C16_SectionsInFixedOrder ==
  Reported =>
    /\ \A k, l \in 1..Len(elements) :
         k < l => SectionRank(elements[k].section) <= SectionRank(elements[l].section)
    /\ elements[1].section = "header"
    /\ \E k \in 1..Len(elements) :
         /\ elements[k].section = "header"
         /\ elements[k].text = <<"URL: ", reportInput.url>>
    /\ \E k \in 1..Len(elements) :
         /\ elements[k].section = "header"
         /\ elements[k].text = <<"Date of analysis: ", reportInput.now>>
    /\ \E k \in 1..Len(elements) :
         elements[k].section = "scores" /\ elements[k].kind = "table"
    /\ \E k \in 1..Len(elements) :
         elements[k].section = "chart" /\ elements[k].kind = "table"

\* C16 witness: a report with all six sections
C16_Witness ==
  /\ Reported
  /\ \A r \in 1..Len(SectionOrder) : Part(SectionOrder[r]) # <<>>

\* the metrics mapping of a results argument is absent or empty
NoMetrics(results) ==
  \/ Falsy(results)
  \/ "metrics" \notin DOMAIN results
  \/ DOMAIN results.metrics = {}

\* C17: missing sections are omitted: when the two results together hold no
\* recommendation the document has no element of the recommendations section
\* (no heading, no category list, no legend), and when the metrics mapping of
\* a device is absent or empty it has no element of that device's metrics
\* section; the report is built all the same.
C17_MissingSectionsOmitted ==
  Reported =>
    /\ Combined(reportInput) = <<>> => Part("recommendations") = <<>>
    /\ NoMetrics(reportInput.mobile) => Part("mobile_metrics") = <<>>
    /\ NoMetrics(reportInput.desktop) => Part("desktop_metrics") = <<>>
    /\ Part("scores") # <<>>

\* C17 witness: no recommendation and an empty mobile metrics mapping, beside
\* desktop metrics, which are rendered
C17_Witness ==
  /\ Reported
  /\ ~Falsy(reportInput.mobile)
  /\ ~Falsy(reportInput.desktop)
  /\ Combined(reportInput) = <<>>
  /\ "metrics" \in DOMAIN reportInput.mobile
  /\ DOMAIN reportInput.mobile.metrics = {}
  /\ Part("recommendations") = <<>>
  /\ Part("mobile_metrics") = <<>>
  /\ Part("desktop_metrics") # <<>>

\* the status label the claim gives a score
StatusAsStated(score) ==
  IF score >= 90 THEN PERFORMANCE_RATINGS["good"].status
  ELSE IF score >= 50 THEN PERFORMANCE_RATINGS["average"].status
  ELSE PERFORMANCE_RATINGS["poor"].status

\* the table of the scores section
ScoreTable == (CHOOSE e \in Range(Part("scores")) : e.kind = "table").rows

\* C18: for every pair of integer scores in 0..100 the score table lists the
\* mobile row before the desktop row, each with "<score>/100" and the status
\* label of the score: the good label iff score >= 90, the average label iff
\* 50 <= score < 90, the poor label iff score < 50.
C18_ScoreTable ==
  (/\ Reported
   /\ ~Falsy(reportInput.mobile) /\ "score" \in DOMAIN reportInput.mobile
   /\ ~Falsy(reportInput.desktop) /\ "score" \in DOMAIN reportInput.desktop) =>
    /\ Len(ScoreTable) = 3
    /\ ScoreTable[2] = <<"Mobile", <<reportInput.mobile.score, "/100">>,
                         StatusAsStated(reportInput.mobile.score)>>
    /\ ScoreTable[3] = <<"Desktop", <<reportInput.desktop.score, "/100">>,
                         StatusAsStated(reportInput.desktop.score)>>

\* C18 witness: mobile 45 with the poor label above desktop 92 with the good
\* label
C18_Witness ==
  /\ Reported
  /\ ScoreTable[2] = <<"Mobile", <<45, "/100">>, "Needs improvement">>
  /\ ScoreTable[3] = <<"Desktop", <<92, "/100">>, "Excellent">>

-----------------------------------------------------------------------------
(* The chat front-end (bot.py)                                               *)
(*                                                                           *)
(* A chat session is a pair <<chat, user>>: the ConversationHandler keeps    *)
(* its state per session, context.user_data is kept per user, and a job      *)
(* belongs to a chat.  A text is kept by the parts is_valid_url tells apart: *)
(* scheme, host and whether white space surrounds it.  A handler runs from   *)
(* the idle state; the variables update, analyzerCalls and replies hold what *)
(* it did until it returns.                                                  *)

\* most job ids uuid4 hands out in one run
MaxJobs == 2

\* the keys of BOT_MESSAGES
BOT_MESSAGES ==
  {"start", "help", "about", "analysis_started", "analysis_complete",
   "invalid_url", "error", "detail_options", "report_caption",
   "full_analysis_complete", "schedule_ask_url", "schedule_ask_url_again",
   "schedule_ask_frequency", "schedule_success", "schedule_error",
   "schedule_cancelled", "list_schedule_header", "list_schedule_no_jobs",
   "schedule_cancel_prompt", "schedule_cancel_success",
   "schedule_cancel_error", "schedule_cancel_not_found", "scheduled_error",
   "compare_usage", "compare_start", "compare_error", "compare_partial_error",
   "compare_complete", "compare_result_header", "compare_site_header",
   "compare_score", "compare_metric", "compare_no_data", "compare_rank_note"}

\* a text: "<scheme>://<host>", with or without white space around it
Text(scheme, host, padded) == [scheme |-> scheme, host |-> host, padded |-> padded]

\* str.strip()
strip(text) == [text EXCEPT !.padded = FALSE]

\* the hosts the three alternatives of url_regex accept
DomainHosts == {"example.com", "another.example.org"}
IpHosts == {"127.0.0.1"}

\* is_valid_url(url): url_regex is anchored at both ends and wants the scheme
\* http or https and a domain, localhost or a dotted quad for the host;
\* urlparse then finds a scheme and a netloc in whatever the regex matched
is_valid_url(url) ==
  /\ ~url.padded
  /\ url.scheme \in {"http", "https"}
  /\ url.host \in DomainHosts \cup {"localhost"} \cup IpHosts

\* one call analyzer.analyze(url, device)
AnalyzerCall(url, device) == [url |-> url, device |-> device]

\* "error" in results
HasError(results) == "error" \in DOMAIN results

\* a message sent to the chat: the key of its text, the jobs it offers to
\* cancel, and whether it carries a document
Reply(key) == [key |-> key, jobs |-> {}, document |-> FALSE]
Document(key) == [key |-> key, jobs |-> {}, document |-> TRUE]
JobList(key, jobs) == [key |-> key, jobs |-> jobs, document |-> FALSE]

\* what a handler without effect on the jobs did
Outcome(calls, sent) == [calls |-> calls, replies |-> sent]

\* error_handler: an exception that left a handler is answered with
\* BOT_MESSAGES.get("generic_error", <default>)
error_handler(sent) == Append(sent, Reply("generic_error"))

\* reply_text(BOT_MESSAGES["analysis_error"]...) in a try block whose except
\* clause sends the same message: without the key the KeyError of the try
\* block is caught, the except clause raises it again and it leaves the handler
ReplyAnalysisError(calls, sent) ==
  IF "analysis_error" \in BOT_MESSAGES
  THEN Outcome(calls, Append(sent, Reply("analysis_error")))
  ELSE Outcome(calls, error_handler(sent))

\* start, help_command, about_command
info_command(name) == Outcome(<<>>, <<Reply(name)>>)

\* a faulty variant: the url of /full goes to the analyzer unchecked
full_analysis_unchecked(args, mobile_results, desktop_results) ==
  IF args = <<>> THEN Outcome(<<>>, <<Reply("full_analysis_no_url")>>)
  ELSE LET url == args[1]
           calls == <<AnalyzerCall(url, "mobile"), AnalyzerCall(url, "desktop")>>
       IN IF HasError(mobile_results) \/ HasError(desktop_results)
          THEN ReplyAnalysisError(calls, <<Reply("analysis_started")>>)
          ELSE Outcome(calls, <<Reply("analysis_started"), Document("report_caption")>>)

\* a faulty variant: only the mobile result is tested for an error
full_analysis_mobile_error_only(args, mobile_results, desktop_results) ==
  IF args = <<>> THEN Outcome(<<>>, <<Reply("full_analysis_no_url")>>)
  ELSE LET url == args[1]
           calls == <<AnalyzerCall(url, "mobile"), AnalyzerCall(url, "desktop")>>
       IN IF ~is_valid_url(url) THEN Outcome(<<>>, <<Reply("invalid_url")>>)
          ELSE IF HasError(mobile_results)
          THEN ReplyAnalysisError(calls, <<Reply("analysis_started")>>)
          ELSE Outcome(calls, <<Reply("analysis_started"), Document("report_caption")>>)

\* full_analysis(update, context), with what the two analyzer calls return
full_analysis(args, mobile_results, desktop_results) ==
  IF args = <<>> THEN Outcome(<<>>, <<Reply("full_analysis_no_url")>>)
  ELSE LET url == args[1]
           calls == <<AnalyzerCall(url, "mobile"), AnalyzerCall(url, "desktop")>>
       IN IF ~is_valid_url(url) THEN Outcome(<<>>, <<Reply("invalid_url")>>)
          ELSE IF HasError(mobile_results) \/ HasError(desktop_results)
          THEN ReplyAnalysisError(calls, <<Reply("analysis_started")>>)
          ELSE Outcome(calls, <<Reply("analysis_started"), Document("report_caption")>>)

\* compare_urls(update, context), with what the analyzer returns for the two
\* urls; results1 and results2 are <<mobile, desktop>>
compare_urls(args, results1, results2) ==
  IF Len(args) # 2 THEN Outcome(<<>>, <<Reply("compare_usage")>>)
  ELSE LET url1 == args[1]
           url2 == args[2]
           calls1 == <<AnalyzerCall(url1, "mobile"), AnalyzerCall(url1, "desktop")>>
           calls2 == <<AnalyzerCall(url2, "mobile"), AnalyzerCall(url2, "desktop")>>
           sent1 == <<Reply("compare_started"), Reply("analysing url1")>>
           first == IF HasError(results1[1]) \/ HasError(results1[2])
                    THEN ReplyAnalysisError(calls1, sent1)
                    ELSE Outcome(calls1, sent1)
           sent2 == Append(first.replies, Reply("analysing url2"))
           second == IF HasError(results2[1]) \/ HasError(results2[2])
                     THEN ReplyAnalysisError(calls1 \o calls2, sent2)
                     ELSE Outcome(calls1 \o calls2, sent2)
       IN IF ~is_valid_url(url1) \/ ~is_valid_url(url2)
          THEN Outcome(<<>>, <<Reply("invalid_url")>>)
          ELSE IF Reply("generic_error") \in Range(first.replies) THEN first
          ELSE IF Reply("generic_error") \in Range(second.replies) THEN second
          ELSE Outcome(second.calls, Append(second.replies, Reply("summary")))

\* text.startswith('/'): a text of this model never does, a message that
\* starts with a slash is a command and filters.COMMAND keeps it away
StartsWithSlash(text) == FALSE

\* analyze_url(update, context), with what the two analyzer calls return
analyze_url(text, mobile_results, desktop_results) ==
  LET url == strip(text)
      calls == <<AnalyzerCall(url, "mobile"), AnalyzerCall(url, "desktop")>>
  IN IF ~is_valid_url(url)
     THEN IF StartsWithSlash(url) THEN Outcome(<<>>, <<Reply("unknown_command")>>)
          ELSE IF "invalid_url_prompt" \in BOT_MESSAGES
          THEN Outcome(<<>>, <<Reply("invalid_url_prompt")>>)
          ELSE Outcome(<<>>, error_handler(<<>>))
     ELSE IF HasError(mobile_results) \/ HasError(desktop_results)
     THEN ReplyAnalysisError(calls, <<Reply("analysis_started")>>)
     ELSE Outcome(calls, <<Reply("analysis_started"), Document("report_caption")>>)

\* scheduled_analysis_job(chat_id, url, application): the desktop analysis
\* runs only after a mobile analysis without error
scheduled_analysis_job(url, mobile_results, desktop_results) ==
  IF HasError(mobile_results)
  THEN Outcome(<<AnalyzerCall(url, "mobile")>>, <<Reply("scheduled_error")>>)
  ELSE LET calls == <<AnalyzerCall(url, "mobile"), AnalyzerCall(url, "desktop")>>
       IN IF HasError(desktop_results)
          THEN Outcome(calls, <<Reply("scheduled_error")>>)
          ELSE Outcome(calls, <<Document("report_caption")>>)

\* a faulty variant: the text is stored as the url without the test
schedule_ask_url_unchecked(text, data) ==
  LET url == strip(text)
  IN [state |-> "ASK_FREQUENCY", user_data |-> [schedule_url |-> url],
      replies |-> <<Reply("schedule_ask_frequency")>>]

\* schedule_ask_url(update, context): the state it returns, the user's data
\* it leaves and the message it sends
schedule_ask_url(text, data) ==
  LET url == strip(text)
  IN IF ~is_valid_url(url)
     THEN [state |-> "ASK_URL", user_data |-> data,
           replies |-> <<Reply("invalid_url+schedule_ask_url_again")>>]
     ELSE [state |-> "ASK_FREQUENCY", user_data |-> [schedule_url |-> url],
           replies |-> <<Reply("schedule_ask_frequency")>>]

\* the four branches on frequency that set trigger_args
TriggerArgs ==
  [weekly |-> [week |-> "1", day_of_week |-> "mon", hour |-> "9"],
   monthly |-> [day |-> "1", hour |-> "9"],
   daily |-> [day |-> "*", hour |-> "9"],
   hourly |-> [hour |-> "*"]]

\* if 'schedule_url' in context.user_data: del context.user_data['schedule_url']
WithoutUrl(data) == <<>>

\* a faulty variant: the entry is recorded before add_job is called, and stays
\* when add_job raises
schedule_set_frequency_records_first(chat_id, frequency, data, job_id, added, jobs, registered) ==
  IF "schedule_url" \notin DOMAIN data
  THEN [scheduled_jobs |-> jobs, scheduler |-> registered, user_data |-> data,
        replies |-> <<Reply("url not found")>>]
  ELSE IF frequency \notin DOMAIN TriggerArgs
  THEN [scheduled_jobs |-> jobs, scheduler |-> registered, user_data |-> data,
        replies |-> <<Reply("unknown frequency")>>]
  ELSE IF added
  THEN [scheduled_jobs |->
          [id \in DOMAIN jobs \cup {job_id} |->
             IF id = job_id
             THEN [chat_id |-> chat_id, url |-> data.schedule_url,
                   frequency |-> frequency]
             ELSE jobs[id]],
        scheduler |->
          [id \in DOMAIN registered \cup {job_id} |->
             IF id = job_id
             THEN [chat_id |-> chat_id, url |-> data.schedule_url,
                   trigger |-> TriggerArgs[frequency]]
             ELSE registered[id]],
        user_data |-> WithoutUrl(data),
        replies |-> <<Reply("schedule_success")>>]
  ELSE [scheduled_jobs |->
          [id \in DOMAIN jobs \cup {job_id} |->
             IF id = job_id
             THEN [chat_id |-> chat_id, url |-> data.schedule_url,
                   frequency |-> frequency]
             ELSE jobs[id]],
        scheduler |-> registered,
        user_data |-> WithoutUrl(data),
        replies |-> <<Reply("schedule_error")>>]

\* schedule_set_frequency(update, context): job_id is what uuid4 returned and
\* added tells whether scheduler.add_job returned or raised
schedule_set_frequency(chat_id, frequency, data, job_id, added, jobs, registered) ==
  IF "schedule_url" \notin DOMAIN data
  THEN [scheduled_jobs |-> jobs, scheduler |-> registered, user_data |-> data,
        replies |-> <<Reply("url not found")>>]
  ELSE IF frequency \notin DOMAIN TriggerArgs
  THEN [scheduled_jobs |-> jobs, scheduler |-> registered, user_data |-> data,
        replies |-> <<Reply("unknown frequency")>>]
  ELSE IF added
  THEN [scheduled_jobs |->
          [id \in DOMAIN jobs \cup {job_id} |->
             IF id = job_id
             THEN [chat_id |-> chat_id, url |-> data.schedule_url,
                   frequency |-> frequency]
             ELSE jobs[id]],
        scheduler |->
          [id \in DOMAIN registered \cup {job_id} |->
             IF id = job_id
             THEN [chat_id |-> chat_id, url |-> data.schedule_url,
                   trigger |-> TriggerArgs[frequency]]
             ELSE registered[id]],
        user_data |-> WithoutUrl(data),
        replies |-> <<Reply("schedule_success")>>]
  ELSE [scheduled_jobs |-> jobs, scheduler |-> registered,
        user_data |-> WithoutUrl(data),
        replies |-> <<Reply("schedule_error")>>]

\* a faulty variant: the jobs of every chat are listed
list_schedules_command_all_chats(chat_id, jobs) ==
  LET user_jobs == DOMAIN jobs
  IN IF user_jobs = {} THEN <<Reply("list_schedule_no_jobs")>>
     ELSE <<JobList("list_schedule_header", user_jobs)>>

\* list_schedules_command(update, context)
list_schedules_command(chat_id, jobs) ==
  LET user_jobs == {id \in DOMAIN jobs : jobs[id].chat_id = chat_id}
  IN IF user_jobs = {} THEN <<Reply("list_schedule_no_jobs")>>
     ELSE <<JobList("list_schedule_header", user_jobs)>>

\* callback data: "freq_<arg>", "cancel_job_<arg>" or something else
CallbackData(prefix, arg) == [prefix |-> prefix, arg |-> arg]

\* a mapping without one key
Without(f, key) == [k \in DOMAIN f \ {key} |-> f[k]]

\* the try block of button_callback once the test on the job passed:
\* remove_job raises for a job the scheduler does not have; after the
\* deletion the confirmation is looked up in BOT_MESSAGES, and the list is
\* refreshed with the callback query in the place of the update, which has
\* no effective_chat; each exception ends in the except clause
cancel_job(job_id, jobs, registered) ==
  IF job_id \notin DOMAIN registered
  THEN [scheduled_jobs |-> jobs, scheduler |-> registered,
        replies |-> <<Reply("schedule_cancel_error")>>]
  ELSE [scheduled_jobs |-> Without(jobs, job_id),
        scheduler |-> Without(registered, job_id),
        replies |->
          IF "schedule_cancelled_job" \in BOT_MESSAGES
          THEN <<Reply("schedule_cancelled_job"), Reply("schedule_cancel_error")>>
          ELSE <<Reply("schedule_cancel_error")>>]

\* a faulty variant: the try block is entered without the test on the job
button_callback_untested(chat_id, data, jobs, registered) ==
  IF data.prefix = "cancel_job"
  THEN cancel_job(data.arg, jobs, registered)
  ELSE [scheduled_jobs |-> jobs, scheduler |-> registered, replies |-> <<>>]

\* a faulty variant: the job is cancelled for whoever presses the button
button_callback_any_chat(chat_id, data, jobs, registered) ==
  IF data.prefix = "cancel_job"
  THEN IF data.arg \in DOMAIN jobs
       THEN cancel_job(data.arg, jobs, registered)
       ELSE [scheduled_jobs |-> jobs, scheduler |-> registered,
             replies |-> <<Reply("job not found")>>]
  ELSE [scheduled_jobs |-> jobs, scheduler |-> registered, replies |-> <<>>]

\* button_callback(update, context)
button_callback(chat_id, data, jobs, registered) ==
  IF data.prefix = "cancel_job"
  THEN IF data.arg \in DOMAIN jobs /\ jobs[data.arg].chat_id = chat_id
       THEN cancel_job(data.arg, jobs, registered)
       ELSE [scheduled_jobs |-> jobs, scheduler |-> registered,
             replies |-> <<Reply("job not found")>>]
  ELSE [scheduled_jobs |-> jobs, scheduler |-> registered, replies |-> <<>>]

-----------------------------------------------------------------------------
(* The chat front-end as a state machine *)

\* the job ids, in the order uuid4 hands them out: each is new
JobIds == <<"job1", "job2", "job3", "job4", "job5", "job6">>

\* the sessions of a run: two users in a chat each, or one user in two chats
Populations ==
  {{<<"chatA", "user1">>, <<"chatB", "user2">>},
   {<<"chatA", "user1">>, <<"chatB", "user1">>}}

Sessions == DOMAIN conversation

\* what the PageSpeed API answers to a call of a handler
BotResponses ==
  {FailedResponse("timeout"), Response("json", "absent", "complete", 92, <<>>)}

BotResults == {analyze(resp) : resp \in BotResponses}

\* the texts users send
ValidUrl == Text("https", "example.com", FALSE)
OtherUrl == Text("http", "localhost", FALSE)
Texts == {ValidUrl, Text("https", "example.com", TRUE), Text("ftp", "example.com", FALSE)}

\* the arguments users give to /full and to /compare
FullArgs == {<<>>, <<ValidUrl>>, <<Text("ftp", "example.com", FALSE)>>}
CompareArgs ==
  {<<ValidUrl>>, <<ValidUrl, OtherUrl>>, <<ValidUrl, Text("ftp", "example.com", FALSE)>>,
   <<Text("ftp", "localhost", FALSE), ValidUrl>>}

\* the frequencies of the buttons users press, and one no button carries
PressedFrequencies == {"daily", "weekly", "yearly"}

\* an update as the handlers read it
Command(session, name, args) ==
  [kind |-> "command", chat |-> session[1], user |-> session[2], name |-> name,
   text |-> NoValue, args |-> args, data |-> NoValue]
Message(session, text) ==
  [kind |-> "text", chat |-> session[1], user |-> session[2], name |-> "",
   text |-> text, args |-> <<>>, data |-> NoValue]
Callback(session, data) ==
  [kind |-> "callback", chat |-> session[1], user |-> session[2], name |-> "",
   text |-> NoValue, args |-> <<>>, data |-> data]
\* the scheduler firing a job is no update; its job id stands in the data
Firing(chat_id, job_id) ==
  [kind |-> "job", chat |-> chat_id, user |-> "", name |-> "",
   text |-> NoValue, args |-> <<>>, data |-> CallbackData("run", job_id)]

InitBot ==
  /\ op = "none"
  /\ NoCall
  /\ NoSort
  /\ NoMemory
  /\ NoReport
  /\ scheduled_jobs = <<>>
  /\ scheduler = <<>>
  /\ \E population \in Populations :
       /\ conversation = [s \in population |-> "END"]
       /\ user_data = [u \in {s[2] : s \in population} |-> <<>>]
  /\ issued = 0
  /\ update = NoValue
  /\ analyzerCalls = <<>>
  /\ analyzerResults = <<>>
  /\ tasks = <<>>
  /\ replies = <<>>

analyzerVars == <<request, result, attempted, attempts>>
jobVars == <<scheduled_jobs, scheduler, issued>>
talkVars == <<conversation, user_data>>

\* a handler that changes nothing of the bot ran on u; returned is what the
\* analyzer returns to the calls the handler gets to make
Handled(name, u, outcome, returned) ==
  /\ op' = name
  /\ update' = u
  /\ analyzerCalls' = outcome.calls
  /\ analyzerResults' = SubSeq(returned, 1, Len(outcome.calls))
  /\ replies' = outcome.replies
  /\ UNCHANGED <<analyzerVars, tasks, prioVars, repeatVars, reportVars, jobVars, talkVars>>

\* /start, /help, /about
InfoCommand ==
  /\ op = "none"
  /\ \E s \in Sessions, name \in {"start", "help", "about"} :
       Handled(name, Command(s, name, <<>>), info_command(name), <<>>)

\* /full [url]
FullAnalysis ==
  /\ op = "none"
  /\ \E s \in Sessions, args \in FullArgs, m \in BotResults, d \in BotResults :
       Handled("full_analysis", Command(s, "full", args), full_analysis(args, m, d), <<m, d>>)

\* /compare url1 url2
CompareUrls ==
  /\ op = "none"
  /\ \E s \in Sessions, args \in CompareArgs,
        r1 \in BotResults \X BotResults, r2 \in BotResults \X BotResults :
       Handled("compare_urls", Command(s, "compare", args), compare_urls(args, r1, r2), r1 \o r2)

\* /listschedules
ListSchedules ==
  /\ op = "none"
  /\ \E s \in Sessions :
       Handled("list_schedules_command", Command(s, "listschedules", <<>>),
               Outcome(<<>>, list_schedules_command(s[1], scheduled_jobs)), <<>>)

\* a text outside the conversation, or in its state ASK_FREQUENCY, where the
\* conversation has no handler for a text: the MessageHandler takes it
AnalyzeUrl ==
  /\ op = "none"
  /\ \E s \in Sessions, text \in Texts, m \in BotResults, d \in BotResults :
       /\ conversation[s] # "ASK_URL"
       /\ Handled("analyze_url", Message(s, text), analyze_url(text, m, d), <<m, d>>)

\* /schedule outside a conversation: the entry point
ScheduleStart ==
  /\ op = "none"
  /\ \E s \in Sessions :
       /\ conversation[s] = "END"
       /\ conversation' = [conversation EXCEPT ![s] = "ASK_URL"]
       /\ update' = Command(s, "schedule", <<>>)
  /\ op' = "schedule_start"
  /\ analyzerCalls' = <<>>
  /\ analyzerResults' = <<>>
  /\ replies' = <<Reply("schedule_ask_url")>>
  /\ UNCHANGED <<analyzerVars, tasks, prioVars, repeatVars, reportVars, jobVars, user_data>>

\* a text in the state ASK_URL
ScheduleAskUrl ==
  /\ op = "none"
  /\ \E s \in Sessions, text \in Texts :
       LET out == schedule_ask_url(text, user_data[s[2]])
       IN /\ conversation[s] = "ASK_URL"
          /\ conversation' = [conversation EXCEPT ![s] = out.state]
          /\ user_data' = [user_data EXCEPT ![s[2]] = out.user_data]
          /\ update' = Message(s, text)
          /\ replies' = out.replies
  /\ op' = "schedule_ask_url"
  /\ analyzerCalls' = <<>>
  /\ analyzerResults' = <<>>
  /\ UNCHANGED <<analyzerVars, tasks, prioVars, repeatVars, reportVars, jobVars>>

\* a freq_ button pressed in the state ASK_FREQUENCY; uuid4 is called only
\* once the url and the frequency are known
ScheduleSetFrequency ==
  /\ op = "none"
  /\ issued < MaxJobs
  /\ \E s \in Sessions, frequency \in PressedFrequencies, added \in BOOLEAN :
       LET out == schedule_set_frequency(s[1], frequency, user_data[s[2]],
                                         JobIds[issued + 1], added,
                                         scheduled_jobs, scheduler)
       IN /\ conversation[s] = "ASK_FREQUENCY"
          /\ conversation' = [conversation EXCEPT ![s] = "END"]
          /\ user_data' = [user_data EXCEPT ![s[2]] = out.user_data]
          /\ scheduled_jobs' = out.scheduled_jobs
          /\ scheduler' = out.scheduler
          /\ issued' = IF "schedule_url" \in DOMAIN user_data[s[2]]
                          /\ frequency \in DOMAIN TriggerArgs
                       THEN issued + 1 ELSE issued
          /\ update' = Callback(s, CallbackData("freq", frequency))
          /\ replies' = out.replies
  /\ op' = "schedule_set_frequency"
  /\ analyzerCalls' = <<>>
  /\ analyzerResults' = <<>>
  /\ UNCHANGED <<analyzerVars, tasks, prioVars, repeatVars, reportVars>>

\* /cancel inside a conversation: the fallback
ScheduleCancel ==
  /\ op = "none"
  /\ \E s \in Sessions :
       /\ conversation[s] # "END"
       /\ conversation' = [conversation EXCEPT ![s] = "END"]
       /\ user_data' = [user_data EXCEPT ![s[2]] = WithoutUrl(@)]
       /\ update' = Command(s, "cancel", <<>>)
  /\ op' = "schedule_cancel"
  /\ analyzerCalls' = <<>>
  /\ analyzerResults' = <<>>
  /\ replies' = <<Reply("schedule_cancelled")>>
  /\ UNCHANGED <<analyzerVars, tasks, prioVars, repeatVars, reportVars, jobVars>>

\* conversation_timeout: a conversation left alone for 300 s ends; no handler
\* runs and the user's data stay
ConversationTimeout ==
  /\ op = "none"
  /\ \E s \in Sessions :
       /\ conversation[s] # "END"
       /\ conversation' = [conversation EXCEPT ![s] = "END"]
  /\ UNCHANGED <<op, analyzerVars, tasks, prioVars, repeatVars, reportVars, jobVars,
                 user_data, update, analyzerCalls, analyzerResults, replies>>

\* the callback data users send: a frequency button and the cancel button of
\* any job id handed out so far or not yet
PressedData ==
  {CallbackData("freq", "daily")}
  \cup {CallbackData("cancel_job", JobIds[n]) : n \in 1..(MaxJobs + 1)}

\* a button pressed that the conversation does not take: a cancel button, or
\* a freq_ button outside the state ASK_FREQUENCY
ButtonCallback ==
  /\ op = "none"
  /\ \E s \in Sessions, data \in PressedData :
       LET out == button_callback(s[1], data, scheduled_jobs, scheduler)
       IN /\ data.prefix = "freq" => conversation[s] # "ASK_FREQUENCY"
          /\ scheduled_jobs' = out.scheduled_jobs
          /\ scheduler' = out.scheduler
          /\ update' = Callback(s, data)
          /\ replies' = out.replies
  /\ op' = "button_callback"
  /\ analyzerCalls' = <<>>
  /\ analyzerResults' = <<>>
  /\ UNCHANGED <<analyzerVars, tasks, prioVars, repeatVars, reportVars, talkVars, issued>>

\* the scheduler fires a job it holds, with the arguments add_job was given
RunScheduledJob ==
  /\ op = "none"
  /\ \E id \in DOMAIN scheduler, m \in BotResults, d \in BotResults :
       Handled("scheduled_analysis_job", Firing(scheduler[id].chat_id, id),
               scheduled_analysis_job(scheduler[id].url, m, d), <<m, d>>)

BotOps ==
  {"start", "help", "about", "full_analysis", "compare_urls",
   "list_schedules_command", "analyze_url", "schedule_start", "schedule_ask_url",
   "schedule_set_frequency", "schedule_cancel", "button_callback",
   "scheduled_analysis_job"}

\* the handler returns; what it sent is with the chat
HandlerReturns ==
  /\ op \in BotOps
  /\ op' = "none"
  /\ update' = NoValue
  /\ analyzerCalls' = <<>>
  /\ analyzerResults' = <<>>
  /\ replies' = <<>>
  /\ UNCHANGED <<analyzerVars, tasks, prioVars, repeatVars, reportVars, jobVars, talkVars>>

NextBot ==
  \/ InfoCommand
  \/ FullAnalysis
  \/ CompareUrls
  \/ ListSchedules
  \/ AnalyzeUrl
  \/ ScheduleStart
  \/ ScheduleAskUrl
  \/ ScheduleSetFrequency
  \/ ScheduleCancel
  \/ ConversationTimeout
  \/ ButtonCallback
  \/ RunScheduledJob
  \/ HandlerReturns

SpecBot == InitBot /\ [][NextBot]_vars

-----------------------------------------------------------------------------
(* Claims about the chat front-end *)

\* C19: every call a handler or the scheduled job makes to the analyzer passes
\* a url that is_valid_url accepts, an absolute http or https url, and the
\* device "mobile" or "desktop".
C19_AnalyzerGetsValidatedUrl ==
  \A i \in 1..Len(analyzerCalls) :
    /\ is_valid_url(analyzerCalls[i].url)
    /\ analyzerCalls[i].url.scheme \in {"http", "https"}
    /\ analyzerCalls[i].device \in {"mobile", "desktop"}

\* the scheduled job of a chat ran both analyses on the url a conversation
\* stored
C19_Witness ==
  /\ op = "scheduled_analysis_job"
  /\ analyzerCalls = <<AnalyzerCall(ValidUrl, "mobile"), AnalyzerCall(ValidUrl, "desktop")>>
  /\ replies = <<Document("report_caption")>>

\* the jobs a completed conversation created and nobody cancelled
Created == DOMAIN scheduled_jobs \cap DOMAIN scheduler

\* C20: a created job keeps its entry in scheduled_jobs and its job in the
\* scheduler, both unchanged, through every step but one: a cancel button
\* for this job pressed in the chat that owns it, which removes both.
C20_JobStaysUntilOwnerCancels ==
  [][\A id \in Created :
       \/ /\ id \in DOMAIN scheduled_jobs'
          /\ id \in DOMAIN scheduler'
          /\ scheduled_jobs'[id] = scheduled_jobs[id]
          /\ scheduler'[id] = scheduler[id]
       \/ /\ op' = "button_callback"
          /\ update'.data = CallbackData("cancel_job", id)
          /\ update'.chat = scheduled_jobs[id].chat_id
          /\ id \notin DOMAIN scheduled_jobs'
          /\ id \notin DOMAIN scheduler']_vars

\* a chat pressed the cancel button of another chat's job, after that job had
\* run, and the job is still there
C20_Witness ==
  /\ op = "button_callback"
  /\ update.data.prefix = "cancel_job"
  /\ update.data.arg \in Created
  /\ scheduled_jobs[update.data.arg].chat_id # update.chat
  /\ replies = <<Reply("job not found")>>
  /\ Cardinality(Created) = MaxJobs

-----------------------------------------------------------------------------
(* The requests of the sub-checks                                            *)
(*                                                                           *)
(* analyze, analyze_seo, analyze_accessibility and analyze_security each     *)
(* open with session.get(..., timeout=30) and raise_for_status().  The       *)
(* server is a run of answers, one for each request it may be sent; attempts     *)
(* holds the answers the call received.                                      *)

\* longest run of answers a server is asked for
MaxAnswers == 3

\* what one request comes back with: a page, a transient server error, or
\* nothing within the timeout
Answers == {"200", "503", "timeout"}

\* the sub-checks that go to the network
NetworkChecks == {"analyze", "analyze_seo", "analyze_accessibility", "analyze_security"}

\* the timeout argument of each session.get, in seconds
RequestTimeout == 30

\* self.session = requests.Session(): no adapter with a retry policy is
\* mounted, so session.get sends one request and hands back its answer
session_get(server) == <<server[1]>>

\* raise_for_status() on what session.get returned, and the except clause of
\* the sub-check: anything but a page ends in {"error": ...}
get_page(check, server) ==
  LET answers == session_get(server)
  IN IF answers[Len(answers)] = "200"
     THEN [check |-> check, fetched |-> TRUE]
     ELSE [check |-> check, error |-> answers[Len(answers)]]

InitFetch ==
  /\ op = "none"
  /\ NoCall
  /\ NoSort
  /\ NoMemory
  /\ NoReport
  /\ NoBot

\* a sub-check requests its page from a server
Fetch ==
  /\ op = "none"
  /\ \E check \in NetworkChecks, server \in [1..MaxAnswers -> Answers] :
       /\ request' = [check |-> check, server |-> server, timeout |-> RequestTimeout]
       /\ attempts' = session_get(server)
       /\ result' = get_page(check, server)
  /\ op' = "session.get"
  /\ UNCHANGED <<attempted, prioVars, repeatVars, reportVars, botVars>>

\* the sub-check returns
FetchReturns ==
  /\ op = "session.get"
  /\ op' = "none"
  /\ request' = NoValue
  /\ result' = NoValue
  /\ attempts' = <<>>
  /\ UNCHANGED <<attempted, prioVars, repeatVars, reportVars, botVars>>

NextFetch == Fetch \/ FetchReturns

SpecFetch == InitFetch /\ [][NextFetch]_vars

-----------------------------------------------------------------------------
(* Claims about the requests *)

\* the attempts the specification asks for
RequiredAttempts == 3

Transient(answer) == answer = "503"

\* C21: a request has a bounded timeout and is attempts again after a transient
\* server error while fewer than three attempts were made; a sub-check fails
\* on such an error only after the third attempt.
C21_RetriedBeforeFailing ==
  op = "session.get" =>
    /\ request.timeout = RequestTimeout
    /\ Len(attempts) <= RequiredAttempts
    /\ Transient(attempts[Len(attempts)]) => Len(attempts) = RequiredAttempts
    /\ ("error" \in DOMAIN result /\ Transient(result.error)) =>
         Len(attempts) = RequiredAttempts

-----------------------------------------------------------------------------
(* The page inspections on their own: analyze_seo and analyze_security run   *)
(* on pages that sit on and next to the limits the code tests                *)

\* most H1 headings of a page
MaxH1 == 2
\* most cookies of a response
MaxCookies == 2

\* a title or a description: missing, or present with a length
MissingText == [present |-> FALSE, length |-> 0]
PresentText(n) == [present |-> TRUE, length |-> n]

\* soup.title.string is None for an empty title, so a title is missing or has
\* a length of at least one
TitleTexts == {MissingText} \cup {PresentText(n) : n \in {9, 10, 60, 61}}

\* a meta description may have an empty content
DescriptionTexts == {MissingText} \cup {PresentText(n) : n \in {0, 49, 50, 160, 161}}

\* <<images_total, images_without_alt>>
ImageCounts == {<<0, 0>>, <<2, 0>>, <<2, 1>>}

SeoCheckPages ==
  {SeoPage("timeout", FALSE, 0, FALSE, 0, 0, 0, 0)}
  \cup {SeoPage("ok", t.present, t.length, d.present, d.length, h1, im[1], im[2]) :
          t \in TitleTexts, d \in DescriptionTexts, h1 \in 0..MaxH1, im \in ImageCounts}

\* a cookie of the response: its Secure and HttpOnly flags and its SameSite
\* value ("" when the attribute is not set)
Cookie(secure, httponly, samesite) ==
  [secure |-> secure, httponly |-> httponly, samesite |-> samesite]

Cookies ==
  {Cookie(TRUE, TRUE, "lax"), Cookie(FALSE, TRUE, "strict"),
   Cookie(TRUE, FALSE, "lax"), Cookie(TRUE, TRUE, ""), Cookie(TRUE, TRUE, "none")}

CookieJars == UNION {[1..n -> Cookies] : n \in 0..MaxCookies}

AllSecurityHeaders == {SecurityHeaders[i] : i \in 1..Len(SecurityHeaders)}

\* the header names of a response: none, all, all but one, and Feature-Policy
\* in the place of Permissions-Policy
HeaderSets ==
  {{}, AllSecurityHeaders, {"Feature-Policy"},
   (AllSecurityHeaders \ {"Permissions-Policy"}) \cup {"Feature-Policy"}}
  \cup {AllSecurityHeaders \ {h} : h \in AllSecurityHeaders}

\* <<scheme of the url, scheme of the final url>>
Schemes == {<<"http", "http">>, <<"http", "https">>, <<"https", "https">>}

\* the response as analyze_security reads it, with its cookies
SecPageWithCookies(fetch, scheme, final, headers, jar) ==
  [fetch |-> fetch, scheme |-> scheme, final_scheme |-> final,
   headers |-> headers, cookie_count |-> Len(jar), jar |-> jar]

SecurityCheckPages ==
  {SecPageWithCookies("timeout", "https", "https", {}, <<>>)}
  \cup {SecPageWithCookies("ok", sc[1], sc[2], headers, jar) :
          sc \in Schemes, headers \in HeaderSets, jar \in CookieJars}

InitChecks ==
  /\ op = "none"
  /\ NoCall
  /\ NoSort
  /\ NoMemory
  /\ NoReport
  /\ NoBot

\* a caller runs analyze_seo(url)
CallAnalyzeSeo ==
  /\ op = "none"
  /\ \E page \in SeoCheckPages :
       /\ request' = page
       /\ result' = analyze_seo(page)
  /\ op' = "analyze_seo"
  /\ UNCHANGED <<attempted, attempts, prioVars, repeatVars, reportVars, botVars>>

\* a caller runs analyze_security(url)
CallAnalyzeSecurity ==
  /\ op = "none"
  /\ \E page \in SecurityCheckPages :
       /\ request' = page
       /\ result' = analyze_security(page)
  /\ op' = "analyze_security"
  /\ UNCHANGED <<attempted, attempts, prioVars, repeatVars, reportVars, botVars>>

\* the caller is done with the result
CheckReturns ==
  /\ op \in {"analyze_seo", "analyze_security"}
  /\ op' = "none"
  /\ request' = NoValue
  /\ result' = NoValue
  /\ UNCHANGED <<attempted, attempts, prioVars, repeatVars, reportVars, botVars>>

NextChecks == CallAnalyzeSeo \/ CallAnalyzeSecurity \/ CheckReturns

SpecChecks == InitChecks /\ [][NextChecks]_vars

-----------------------------------------------------------------------------
(* Claims about the page inspections *)

\* the number of places of a sequence that hold x
Count(seq, x) == Cardinality({i \in 1..Len(seq) : seq[i] = x})

\* analyze_seo returned for a page it could fetch
SeoChecked == op = "analyze_seo" /\ request.fetch = "ok"

\* the four conditions as the specification words them
TitleViolated ==
  ~request.title_present \/ request.title_length < 10 \/ request.title_length > 60
DescriptionViolated ==
  \/ ~request.description_present
  \/ request.description_length < 50
  \/ request.description_length > 160
H1Violated == request.h1 = 0 \/ request.h1 > 1
AltViolated == request.images_without_alt >= 1

\* C22: analyze_seo emits one recommendation for each violated condition and
\* none for a condition that holds, and the status of the title and of the
\* description is "poor" exactly when its recommendation is emitted.
C22_SeoRecommendations ==
  SeoChecked =>
    LET recs == result.recommendations
        One(cond, text) == Count(recs, text) = (IF cond THEN 1 ELSE 0)
    IN /\ One(TitleViolated, "optimize the title")
       /\ One(DescriptionViolated, "add a meta description")
       /\ One(H1Violated, "exactly one H1")
       /\ One(AltViolated, "add alt to images")
       /\ Range(recs) \subseteq {"optimize the title", "add a meta description",
                                 "exactly one H1", "add alt to images"}
       /\ (result.title.status = "poor") <=> TitleViolated
       /\ (result.meta_description.status = "poor") <=> DescriptionViolated

\* a page with a title of 61 characters, a description of 49, two H1 headings
\* and an image without alt text got all four recommendations
C22_Witness ==
  /\ SeoChecked
  /\ request.title_length = 61
  /\ request.description_length = 49
  /\ request.h1 = 2
  /\ request.images_without_alt = 1
  /\ Len(result.recommendations) = 4

\* analyze_security ran on a response it could fetch
SecurityChecked == op = "analyze_security" /\ request.fetch = "ok"

\* at least one cookie of the response lacks the attribute
LacksSecure == \E i \in 1..Len(request.jar) : ~request.jar[i].secure
LacksHttpOnly == \E i \in 1..Len(request.jar) : ~request.jar[i].httponly
LacksSameSite == \E i \in 1..Len(request.jar) : request.jar[i].samesite \notin {"lax", "strict"}

\* C23: analyze_security returns a recommendation for each missing security
\* header (Feature-Policy standing in for Permissions-Policy), one for
\* transport that is neither https nor redirected to https, and one for each
\* cookie attribute that at least one cookie lacks.
C23_SecurityRecommendations ==
  SecurityChecked =>
    /\ "recommendations" \in DOMAIN result
    /\ LET recs == result.recommendations
           One(cond, text) == Count(recs, text) = (IF cond THEN 1 ELSE 0)
       IN /\ \A h \in AllSecurityHeaders :
               One(~(h \in request.headers
                     \/ (h = "Permissions-Policy" /\ "Feature-Policy" \in request.headers)),
                   h)
          /\ One(~(request.scheme = "https"
                   \/ (request.scheme = "http" /\ request.final_scheme = "https")),
                 "move to HTTPS")
          /\ One(LacksSecure, "add Secure to cookies")
          /\ One(LacksHttpOnly, "add HttpOnly to cookies")
          /\ One(LacksSameSite, "add SameSite to cookies")

\* the handlers that answer with a report
ReportingOps == {"analyze_url", "full_analysis", "scheduled_analysis_job"}

\* a document was sent to the chat
DocumentSent == \E i \in 1..Len(replies) : replies[i].document

\* C24: in the plain-message handler, /full and the scheduled job no document
\* is sent when an analysis of the request returned with an error marker.
C24_NoReportAfterError ==
  (op \in ReportingOps /\ \E i \in 1..Len(analyzerResults) : HasError(analyzerResults[i]))
    => ~DocumentSent

\* /full ran both analyses, the desktop one alone failed, and the chat got the
\* start message and an error but no document
C24_Witness ==
  /\ op = "full_analysis"
  /\ Len(analyzerResults) = 2
  /\ ~HasError(analyzerResults[1])
  /\ HasError(analyzerResults[2])
  /\ Len(replies) = 2
  /\ ~DocumentSent

\* C25: the job ids of scheduled_jobs are the job ids the scheduler holds,
\* whatever conversations and cancel buttons came before and whether add_job
\* returned or raised.
C25_SameJobIds == DOMAIN scheduled_jobs = DOMAIN scheduler

\* add_job raised at the end of a conversation while an earlier job is in
\* place: the chat got schedule_error and no entry was recorded
C25_Witness ==
  /\ op = "schedule_set_frequency"
  /\ replies = <<Reply("schedule_error")>>
  /\ issued = MaxJobs
  /\ Cardinality(DOMAIN scheduled_jobs) = MaxJobs - 1
  /\ Cardinality(DOMAIN scheduler) = MaxJobs - 1

\* the jobs whose entry names the chat
JobsOf(chat_id, jobs) == {id \in DOMAIN jobs : jobs[id].chat_id = chat_id}

\* C26: a cancel button pressed for a job of another chat, or for an id
\* without entry, leaves scheduled_jobs and the scheduler as they were, and
\* the list /listschedules sends holds the jobs of the asking chat and no
\* other.
C26_OtherChatsJobsOutOfReach ==
  [][/\ (/\ op' = "button_callback"
         /\ update'.data.prefix = "cancel_job"
         /\ update'.data.arg \notin JobsOf(update'.chat, scheduled_jobs))
          => (scheduled_jobs' = scheduled_jobs /\ scheduler' = scheduler)
     /\ op' = "list_schedules_command"
          => /\ Len(replies') = 1
             /\ replies'[1].jobs = JobsOf(update'.chat, scheduled_jobs')]_vars

\* a chat asked for its list while another chat has a job too: the list
\* offers the chat's own job and not the other one
C26_Witness ==
  /\ op = "list_schedules_command"
  /\ replies[1].jobs # {}
  /\ replies[1].jobs = JobsOf(update.chat, scheduled_jobs)
  /\ DOMAIN scheduled_jobs \ replies[1].jobs # {}

\* C27: when a cancel button removes the job from scheduled_jobs and from the
\* scheduler, the chat is sent the confirmation of the cancellation, and
\* schedule_cancel_error is sent only when the job was not removed.
C27_CancelConfirmed ==
  [][(op' = "button_callback" /\ update'.data.prefix = "cancel_job") =>
       LET id == update'.data.arg
           removed == /\ id \in DOMAIN scheduled_jobs
                      /\ id \notin DOMAIN scheduled_jobs'
                      /\ id \notin DOMAIN scheduler'
       IN /\ removed => Reply("schedule_cancelled_job") \in Range(replies')
          /\ Reply("schedule_cancel_error") \in Range(replies') => ~removed]_vars

\* the jobs a step added, and whether it left the others as they were
NewJobs == DOMAIN scheduled_jobs' \ DOMAIN scheduled_jobs
OldJobsKept ==
  /\ DOMAIN scheduled_jobs \subseteq DOMAIN scheduled_jobs'
  /\ \A id \in DOMAIN scheduled_jobs : scheduled_jobs'[id] = scheduled_jobs[id]

\* the frequencies a job can have
KnownFrequencies == {"weekly", "monthly", "daily", "hourly"}

\* C28: a job is created only by a freq_ button with a known frequency,
\* pressed in the state ASK_FREQUENCY with a stored url is_valid_url accepts;
\* that state is entered only from ASK_URL by a text is_valid_url accepts, and
\* ASK_URL only by /schedule.  An invalid url keeps the conversation in
\* ASK_URL, an unknown frequency, a missing url and /cancel end it, all
\* without a new job, and a completion that succeeds adds one entry and
\* leaves the others unchanged.
C28_JobOnlyFromConversation ==
  [][LET s == <<update'.chat, update'.user>>
     IN /\ NewJobs # {} =>
             /\ op' = "schedule_set_frequency"
             /\ conversation[s] = "ASK_FREQUENCY"
             /\ conversation'[s] = "END"
             /\ update'.data.arg \in KnownFrequencies
             /\ "schedule_url" \in DOMAIN user_data[s[2]]
             /\ is_valid_url(user_data[s[2]].schedule_url)
             /\ Cardinality(NewJobs) = 1
             /\ OldJobsKept
        /\ \A t \in DOMAIN conversation :
             /\ (conversation'[t] = "ASK_FREQUENCY" /\ conversation[t] # "ASK_FREQUENCY")
                  => /\ conversation[t] = "ASK_URL"
                     /\ op' = "schedule_ask_url"
                     /\ t = s
                     /\ is_valid_url(strip(update'.text))
             /\ (conversation'[t] = "ASK_URL" /\ conversation[t] # "ASK_URL")
                  => /\ conversation[t] = "END"
                     /\ op' = "schedule_start"
                     /\ t = s
        /\ (op' = "schedule_ask_url" /\ ~is_valid_url(strip(update'.text)))
             => (conversation'[s] = "ASK_URL" /\ scheduled_jobs' = scheduled_jobs)
        /\ (/\ op' = "schedule_set_frequency"
            /\ \/ update'.data.arg \notin KnownFrequencies
               \/ "schedule_url" \notin DOMAIN user_data[s[2]])
             => (conversation'[s] = "END" /\ scheduled_jobs' = scheduled_jobs)
        /\ op' = "schedule_cancel"
             => (conversation'[s] = "END" /\ scheduled_jobs' = scheduled_jobs)
        /\ (op' = "schedule_set_frequency" /\ replies' = <<Reply("schedule_success")>>)
             => (Cardinality(NewJobs) = 1 /\ OldJobsKept)]_vars

\* a conversation was completed while an earlier job is in place: the chat
\* got schedule_success and there is one job more
C28_Witness ==
  /\ op = "schedule_set_frequency"
  /\ replies = <<Reply("schedule_success")>>
  /\ conversation[<<update.chat, update.user>>] = "END"
  /\ Cardinality(DOMAIN scheduled_jobs) = MaxJobs

\* the report has a recommendations section
RecommendationsReported ==
  /\ Reported
  /\ ~Falsy(reportInput.mobile)
  /\ ~Falsy(reportInput.desktop)

\* the distinct titles of the two lists
UnionOfTitles ==
  Range(RecsIn(reportInput.mobile)) \cup Range(RecsIn(reportInput.desktop))

\* C29: every distinct title of the two lists stands on exactly one line of
\* the recommendations section, under one of the four categories, and every
\* line of the section holds a title of the lists.
C29_EachTitleOnce ==
  RecommendationsReported =>
    /\ \A title \in UnionOfTitles :
         Cardinality({k \in RecLines : elements[k].text[2] = title}) = 1
    /\ \A k \in RecLines :
         /\ elements[k].text[2] \in UnionOfTitles
         /\ CategoryOf(k) \in {<<"Image optimization:">>, <<"Code optimization:">>,
                               <<"General performance:">>, <<"Other recommendations:">>}

\* both lists hold the same title, one with words of the image and of the
\* performance keywords, and the report has it once, under the images
C29_Witness ==
  /\ RecommendationsReported
  /\ "Optimize the loading of images" \in Range(RecsIn(reportInput.mobile))
  /\ "Optimize the loading of images" \in Range(RecsIn(reportInput.desktop))
  /\ \E k \in RecLines :
       /\ elements[k].text[2] = "Optimize the loading of images"
       /\ CategoryOf(k) = <<"Image optimization:">>

-----------------------------------------------------------------------------
(* Cancel callbacks in process at the same time                              *)
(*                                                                           *)
(* button_callback awaits twice: query.answer() before it reads the data,    *)
(* and edit_message_text once the message is chosen.  What lies between the  *)
(* two, the test on the job, remove_job and the deletion of the entry, runs  *)
(* without giving up the event loop.  Here several callbacks are in process  *)
(* at once, each at one of its awaits, and the event loop resumes them in    *)
(* any order; updates processed one after the other are the runs in which    *)
(* a task is done before the next is started.                                *)

\* most cancel callbacks in process at the same time
MaxTasks == 2

\* the bot after chatA and chatB each completed a /schedule conversation
TwoJobs ==
  [id \in {JobIds[1], JobIds[2]} |->
     [chat_id |-> IF id = JobIds[1] THEN "chatA" ELSE "chatB",
      url |-> ValidUrl, frequency |-> "daily"]]
TwoRegistered ==
  [id \in DOMAIN TwoJobs |->
     [chat_id |-> TwoJobs[id].chat_id, url |-> ValidUrl,
      trigger |-> TriggerArgs["daily"]]]

\* a callback not yet received
IdleTask ==
  [pc |-> "idle", chat |-> "", job |-> "", removed |-> FALSE, raised |-> FALSE,
   reply |-> <<>>]

InitCancel ==
  /\ op = "none"
  /\ NoCall
  /\ NoSort
  /\ NoMemory
  /\ NoReport
  /\ scheduled_jobs = TwoJobs
  /\ scheduler = TwoRegistered
  /\ conversation = [s \in {<<"chatA", "user1">>, <<"chatB", "user2">>} |-> "END"]
  /\ user_data = [u \in {"user1", "user2"} |-> <<>>]
  /\ issued = Cardinality(DOMAIN TwoJobs)
  /\ update = NoValue
  /\ analyzerCalls = <<>>
  /\ analyzerResults = <<>>
  /\ tasks = [t \in 1..MaxTasks |-> IdleTask]
  /\ replies = <<>>

idleVars == <<op, analyzerVars, prioVars, repeatVars, reportVars, talkVars, issued,
              update, analyzerCalls, analyzerResults, replies>>

\* a cancel button is pressed: button_callback starts and waits in
\* `await query.answer()`
CancelPressed ==
  /\ \E t \in DOMAIN tasks, chat \in {"chatA", "chatB"}, id \in DOMAIN TwoJobs :
       /\ tasks[t].pc = "idle"
       /\ tasks' = [tasks EXCEPT ![t] = [IdleTask EXCEPT !.pc = "answer",
                                                         !.chat = chat, !.job = id]]
  /\ UNCHANGED <<idleVars, scheduled_jobs, scheduler>>

\* the task is resumed after query.answer() and runs to its next await,
\* edit_message_text: the test on the job and, when it passes, remove_job and
\* the deletion; raised tells that remove_job was called for a job the
\* scheduler does not hold
CancelDecided ==
  /\ \E t \in DOMAIN tasks :
       LET out == button_callback(tasks[t].chat, CallbackData("cancel_job", tasks[t].job),
                                  scheduled_jobs, scheduler)
           removed == tasks[t].job \in DOMAIN scheduler \ DOMAIN out.scheduler
       IN /\ tasks[t].pc = "answer"
          /\ scheduled_jobs' = out.scheduled_jobs
          /\ scheduler' = out.scheduler
          /\ tasks' = [tasks EXCEPT ![t] =
                         [@ EXCEPT !.pc = "edit", !.removed = removed,
                                   !.raised = ~removed /\ out.replies
                                                = <<Reply("schedule_cancel_error")>>,
                                   !.reply = out.replies]]
  /\ UNCHANGED idleVars

\* edit_message_text returns and the handler ends
CancelEdited ==
  /\ \E t \in DOMAIN tasks :
       /\ tasks[t].pc = "edit"
       /\ tasks' = [tasks EXCEPT ![t].pc = "done"]
  /\ UNCHANGED <<idleVars, scheduled_jobs, scheduler>>

NextCancel == CancelPressed \/ CancelDecided \/ CancelEdited

SpecCancel == InitCancel /\ [][NextCancel]_vars

\* C30: of the cancel callbacks for one job that are in process at the same
\* time at most one removes the job; no callback calls remove_job for a job
\* that is gone, and a callback that comes after the removal is answered
\* with the not-found message.
C30_RemovedOnce ==
  /\ \A id \in DOMAIN TwoJobs :
       Cardinality({t \in DOMAIN tasks : tasks[t].job = id /\ tasks[t].removed}) <= 1
  /\ \A t \in DOMAIN tasks :
       /\ ~tasks[t].raised
       /\ (tasks[t].pc \in {"edit", "done"} /\ ~tasks[t].removed)
            => tasks[t].reply = <<Reply("job not found")>>

\* two callbacks of the owning chat for the same job ran to their end: one
\* removed the job, the other found it gone
C30_Witness ==
  \E t, u \in DOMAIN tasks :
    /\ t # u
    /\ tasks[t].pc = "done" /\ tasks[u].pc = "done"
    /\ tasks[t].job = tasks[u].job
    /\ tasks[t].chat = TwoJobs[tasks[t].job].chat_id
    /\ tasks[u].chat = tasks[t].chat
    /\ tasks[t].removed
    /\ tasks[u].reply = <<Reply("job not found")>>

====
